---- MODULE Spec2Model ----
(***************************************************************************)
(* Render graph, graph runner and per-frame resource lifecycle of the      *)
(* Avalanche rendering crate (crates/libs/rendering).                      *)
(*                                                                         *)
(* Slot and edge indices are 0-based as in the source; TLA+ sequences are  *)
(* 1-based, so slot i of a schema s is s[i + 1].                           *)
(***************************************************************************)
EXTENDS Integers, Sequences, FiniteSets, TLC

(***************************************************************************)
(* Bounds of the model.                                                    *)
(***************************************************************************)
\* NodeId::new is called at most MaxId times while a graph is built.
MaxId == 2

\* At most MaxEdges edges are stored in a graph: no edge is added beyond that.
MaxEdges == 2

\* The number of candidate edges a root graph is drawn from.
MaxCandidate == 7

\* The number of ticks.
MaxFrames == 2

\* The width, in bits, that usize is scaled down to.
UsizeBits == 6

\* Pool counts from 1 to MaxPools are tried.
MaxPools == 4

\* A swapchain holds from 2 to MaxImages images.
MaxImages == 3

\* At most MaxSemaphores semaphore objects are created for a swapchain.
MaxSemaphores == 9

\* Option::None for a NodeId (NodeId wraps a NonZeroU32, so 0 is free).
NoId == 0

(***************************************************************************)
(* Slot registry (graph/node_slot.rs).                                     *)
(***************************************************************************)
SlotType == {"Buffer", "ImageView", "Sampler", "Entity"}

SlotInfo(name, slot_type) == [name |-> name, slot_type |-> slot_type]

\* SlotLabel::Index(i) and SlotLabel::Name(n).
SlotIndex(i) == [k |-> "Index", i |-> i]
SlotName(n) == [k |-> "Name", n |-> n]

\* First position (0-based) of a slot called n, or -1: Iterator::position.
RECURSIVE position(_, _, _)
position(slots, n, i) ==
    IF i >= Len(slots) THEN -1
    ELSE IF slots[i + 1].name = n THEN i
    ELSE position(slots, n, i + 1)

\* SlotInfos::get_slot_index: Some(index) as the index, None as -1.
get_slot_index(slots, label) ==
    IF label.k = "Index"
    THEN IF label.i < Len(slots) THEN label.i ELSE -1
    ELSE position(slots, label.n, 0)

(***************************************************************************)
(* Node implementations the graphs are populated with (trait Node: the     *)
(* schema a node declares through input() and output()).                   *)
(***************************************************************************)
NodeKinds == {"Src", "Pass"}

node_input(kind, inputs) ==
    CASE kind = "EmptyNode" -> << >>
      [] kind = "Src" -> << >>
      [] kind = "Pass" -> << SlotInfo("b", "Buffer") >>
      [] kind = "Sink" -> << SlotInfo("b", "Buffer"), SlotInfo("v", "ImageView") >>
      [] kind = "Driver" -> << >>
      [] kind = "GraphInputNode" -> inputs

node_output(kind, inputs) ==
    CASE kind = "EmptyNode" -> << >>
      [] kind = "Src" -> << SlotInfo("b", "Buffer"), SlotInfo("c", "Buffer") >>
      [] kind = "Pass" -> << SlotInfo("v", "ImageView") >>
      [] kind = "Sink" -> << >>
      [] kind = "Driver" -> << >>
      [] kind = "GraphInputNode" -> inputs

(***************************************************************************)
(* Edge model (graph/edge.rs).                                             *)
(***************************************************************************)
SlotEdge(output_node, output_index, input_node, input_index) ==
    [kind |-> "SlotEdge", input_node |-> input_node, input_index |-> input_index,
     output_node |-> output_node, output_index |-> output_index]

NodeEdge(output_node, input_node) ==
    [kind |-> "NodeEdge", input_node |-> input_node, input_index |-> -1,
     output_node |-> output_node, output_index |-> -1]

NoEdge == [kind |-> "None", input_node |-> NoId, input_index |-> -1,
           output_node |-> NoId, output_index |-> -1]

\* slice::contains
contains(edges, edge) == \E i \in 1..Len(edges) : edges[i] = edge

\* Position (1-based) of the first occurrence of edge, 0 when there is none.
edge_position(edges, edge) ==
    IF contains(edges, edge)
    THEN CHOOSE i \in 1..Len(edges) :
            edges[i] = edge /\ \A j \in 1..(i - 1) : edges[j] # edge
    ELSE 0

\* Vec::swap_remove: the last element takes the place of the removed one.
swap_remove(edges, i) ==
    LET n == Len(edges)
        moved == [edges EXCEPT ![i] = edges[n]]
    IN SubSeq(moved, 1, n - 1)

\* EdgeInfo::add_input_edge / add_output_edge on one edge list.
add_edge_to(edges, edge) ==
    IF contains(edges, edge)
    THEN [res |-> "EdgeAlreadyExists", edges |-> edges]
    ELSE [res |-> "Ok", edges |-> Append(edges, edge)]

\* EdgeInfo::remove_input_edge / remove_output_edge on one edge list.
remove_edge_from(edges, edge) ==
    LET i == edge_position(edges, edge)
    IN IF i = 0
       THEN [res |-> "EdgeDoesNotExist", edges |-> edges]
       ELSE [res |-> "Ok", edges |-> swap_remove(edges, i)]

(***************************************************************************)
(* Render graph (graph/graph.rs).  A graph is a record                     *)
(*   nodes       : NodeId -> NodeState   (HashMap<NodeId, NodeState>)      *)
(*   node_names  : name -> NodeId        (HashMap<Cow<str>, NodeId>)       *)
(*   sub_graphs  : name -> graph         (HashMap<Cow<str>, RenderGraph>)  *)
(*   input_node  : NodeId or NoId        (Option<NodeId>)                  *)
(* The operations are functions from a graph to a record holding the graph *)
(* after the call (g) and the call's result (res: "Ok" or the name of the  *)
(* RenderGraphError variant).                                              *)
(***************************************************************************)
INPUT_NODE_NAME == "GraphInputNode"

EmptyMap == [x \in {} |-> 0]

\* RenderGraph::default()
DefaultGraph ==
    [nodes |-> EmptyMap, node_names |-> EmptyMap, sub_graphs |-> EmptyMap,
     input_node |-> NoId]

\* HashMap::remove
map_remove(m, k) == [x \in (DOMAIN m) \ {k} |-> m[x]]

\* HashMap::insert
map_insert(m, k, v) == (k :> v) @@ m

\* NodeLabel::Id(id) and NodeLabel::Name(name).
LabelId(id) == [k |-> "Id", id |-> id]
LabelName(n) == [k |-> "Name", n |-> n]

\* NodeState::new, with the name add_node sets right after it.
NodeState_new(id, name, kind, inputs) ==
    [id |-> id, name |-> name, type_name |-> kind,
     input_slots |-> node_input(kind, inputs),
     output_slots |-> node_output(kind, inputs),
     edges |-> [id |-> id, input_edges |-> << >>, output_edges |-> << >>]]

\* RenderGraph::add_node, given the id NodeId::new() returned.
add_node(g, name, kind, inputs, id) ==
    [g EXCEPT !.nodes = map_insert(g.nodes, id, NodeState_new(id, name, kind, inputs)),
              !.node_names = map_insert(g.node_names, name, id)]

\* RenderGraph::get_node_id: a NodeLabel::Id is returned without a lookup.
get_node_id(g, label) ==
    IF label.k = "Id" THEN [res |-> "Ok", id |-> label.id]
    ELSE IF label.n \in DOMAIN g.node_names
         THEN [res |-> "Ok", id |-> g.node_names[label.n]]
         ELSE [res |-> "InvalidNode", id |-> NoId]

\* RenderGraph::get_node_state / get_node_state_mut succeed exactly when:
has_node(g, id) == id \in DOMAIN g.nodes

\* RenderGraph::has_edge
has_edge(g, edge) ==
    /\ has_node(g, edge.output_node)
    /\ contains(g.nodes[edge.output_node].edges.output_edges, edge)
    /\ has_node(g, edge.input_node)
    /\ contains(g.nodes[edge.input_node].edges.input_edges, edge)

\* The slot edges of an input-edge list bound to input slot `index`, in list order.
slot_edges_at(edges, index) ==
    SelectSeq(edges, LAMBDA e : e.kind = "SlotEdge" /\ e.input_index = index)

\* validate_edge without the comparison of the two slot types.
validate_edge_untyped(g, edge, should_exist) ==
    LET ok == [res |-> "Ok", occ |-> NoId]
        err(e) == [res |-> e, occ |-> NoId]
    IN
    IF should_exist = "Exists" /\ ~has_edge(g, edge) THEN err("EdgeDoesNotExist")
    ELSE IF should_exist = "DoesNotExist" /\ has_edge(g, edge) THEN err("EdgeAlreadyExists")
    ELSE IF edge.kind = "NodeEdge" THEN ok
    ELSE IF ~has_node(g, edge.output_node) THEN err("InvalidNode")
    ELSE IF ~has_node(g, edge.input_node) THEN err("InvalidNode")
    ELSE
      LET found == slot_edges_at(g.nodes[edge.input_node].edges.input_edges,
                                 edge.input_index)
      IN
      IF edge.output_index >= Len(g.nodes[edge.output_node].output_slots)
      THEN err("InvalidOutputNodeSlot")
      ELSE IF edge.input_index >= Len(g.nodes[edge.input_node].input_slots)
      THEN err("InvalidInputNodeSlot")
      ELSE IF Len(found) > 0 /\ should_exist = "DoesNotExist"
           THEN [res |-> "NodeInputSlotAlreadyOccupied", occ |-> found[1].output_node]
      ELSE ok

\* validate_edge without the two checks of has_edge against should_exist.
validate_edge_unchecked(g, edge, should_exist) ==
    LET ok == [res |-> "Ok", occ |-> NoId]
        err(e) == [res |-> e, occ |-> NoId]
    IN
    IF edge.kind = "NodeEdge" THEN ok
    ELSE IF ~has_node(g, edge.output_node) THEN err("InvalidNode")
    ELSE IF ~has_node(g, edge.input_node) THEN err("InvalidNode")
    ELSE
      LET output_slots == g.nodes[edge.output_node].output_slots
          input_slots == g.nodes[edge.input_node].input_slots
          found == slot_edges_at(g.nodes[edge.input_node].edges.input_edges,
                                 edge.input_index)
      IN
      IF edge.output_index >= Len(output_slots) THEN err("InvalidOutputNodeSlot")
      ELSE IF edge.input_index >= Len(input_slots) THEN err("InvalidInputNodeSlot")
      ELSE IF Len(found) > 0 /\ should_exist = "DoesNotExist"
           THEN [res |-> "NodeInputSlotAlreadyOccupied", occ |-> found[1].output_node]
      ELSE IF output_slots[edge.output_index + 1].slot_type
                # input_slots[edge.input_index + 1].slot_type
           THEN err("MismatchedNodeSlots")
      ELSE ok

\* validate_edge without the search for an edge already bound to the input slot.
validate_edge_unoccupied(g, edge, should_exist) ==
    LET ok == [res |-> "Ok", occ |-> NoId]
        err(e) == [res |-> e, occ |-> NoId]
    IN
    IF should_exist = "Exists" /\ ~has_edge(g, edge) THEN err("EdgeDoesNotExist")
    ELSE IF should_exist = "DoesNotExist" /\ has_edge(g, edge) THEN err("EdgeAlreadyExists")
    ELSE IF edge.kind = "NodeEdge" THEN ok
    ELSE IF ~has_node(g, edge.output_node) THEN err("InvalidNode")
    ELSE IF ~has_node(g, edge.input_node) THEN err("InvalidNode")
    ELSE
      LET output_slots == g.nodes[edge.output_node].output_slots
          input_slots == g.nodes[edge.input_node].input_slots
      IN
      IF edge.output_index >= Len(output_slots) THEN err("InvalidOutputNodeSlot")
      ELSE IF edge.input_index >= Len(input_slots) THEN err("InvalidInputNodeSlot")
      ELSE IF output_slots[edge.output_index + 1].slot_type
                # input_slots[edge.input_index + 1].slot_type
           THEN err("MismatchedNodeSlots")
      ELSE ok

\* RenderGraph::validate_edge; should_exist is "Exists" or "DoesNotExist".
\* occ is the occupied_by_node of NodeInputSlotAlreadyOccupied.
validate_edge(g, edge, should_exist) ==
    LET ok == [res |-> "Ok", occ |-> NoId]
        err(e) == [res |-> e, occ |-> NoId]
    IN
    IF should_exist = "Exists" /\ ~has_edge(g, edge) THEN err("EdgeDoesNotExist")
    ELSE IF should_exist = "DoesNotExist" /\ has_edge(g, edge) THEN err("EdgeAlreadyExists")
    ELSE IF edge.kind = "NodeEdge" THEN ok
    ELSE IF ~has_node(g, edge.output_node) THEN err("InvalidNode")
    ELSE IF ~has_node(g, edge.input_node) THEN err("InvalidNode")
    ELSE
      LET output_slots == g.nodes[edge.output_node].output_slots
          input_slots == g.nodes[edge.input_node].input_slots
          found == slot_edges_at(g.nodes[edge.input_node].edges.input_edges,
                                 edge.input_index)
      IN
      IF edge.output_index >= Len(output_slots) THEN err("InvalidOutputNodeSlot")
      ELSE IF edge.input_index >= Len(input_slots) THEN err("InvalidInputNodeSlot")
      ELSE IF Len(found) > 0 /\ should_exist = "DoesNotExist"
           THEN [res |-> "NodeInputSlotAlreadyOccupied", occ |-> found[1].output_node]
      ELSE IF output_slots[edge.output_index + 1].slot_type
                # input_slots[edge.input_index + 1].slot_type
           THEN err("MismatchedNodeSlots")
      ELSE ok

\* The tail shared by try_add_slot_edge and try_add_node_edge: the edge goes
\* into the output node's output_edges, then into the input node's input_edges,
\* each step returning early (the ? operator) on its own error.
insert_edge(g, edge) ==
    IF ~has_node(g, edge.output_node) THEN [g |-> g, res |-> "InvalidNode"]
    ELSE
      LET o == add_edge_to(g.nodes[edge.output_node].edges.output_edges, edge)
          g1 == [g EXCEPT !.nodes[edge.output_node].edges.output_edges = o.edges]
      IN
      IF o.res # "Ok" THEN [g |-> g, res |-> o.res]
      ELSE IF ~has_node(g1, edge.input_node) THEN [g |-> g1, res |-> "InvalidNode"]
      ELSE
        LET i == add_edge_to(g1.nodes[edge.input_node].edges.input_edges, edge)
            g2 == [g1 EXCEPT !.nodes[edge.input_node].edges.input_edges = i.edges]
        IN IF i.res # "Ok" THEN [g |-> g1, res |-> i.res]
           ELSE [g |-> g2, res |-> "Ok"]

\* The tail shared by remove_slot_edge and remove_node_edge.
delete_edge(g, edge) ==
    IF ~has_node(g, edge.output_node) THEN [g |-> g, res |-> "InvalidNode"]
    ELSE
      LET o == remove_edge_from(g.nodes[edge.output_node].edges.output_edges, edge)
          g1 == [g EXCEPT !.nodes[edge.output_node].edges.output_edges = o.edges]
      IN
      IF o.res # "Ok" THEN [g |-> g, res |-> o.res]
      ELSE IF ~has_node(g1, edge.input_node) THEN [g |-> g1, res |-> "InvalidNode"]
      ELSE
        LET i == remove_edge_from(g1.nodes[edge.input_node].edges.input_edges, edge)
            g2 == [g1 EXCEPT !.nodes[edge.input_node].edges.input_edges = i.edges]
        IN IF i.res # "Ok" THEN [g |-> g1, res |-> i.res]
           ELSE [g |-> g2, res |-> "Ok"]

\* The head shared by try_add_slot_edge and remove_slot_edge: the labels are
\* resolved to a SlotEdge, or to the first error on the way.
resolve_slot_edge(g, output_node, output_slot, input_node, input_slot) ==
    LET o == get_node_id(g, output_node)
        i == get_node_id(g, input_node)
        err(e) == [res |-> e, edge |-> NoEdge]
    IN
    IF o.res # "Ok" THEN err(o.res)
    ELSE IF i.res # "Ok" THEN err(i.res)
    ELSE IF ~has_node(g, o.id) THEN err("InvalidNode")
    ELSE
      LET output_index == get_slot_index(g.nodes[o.id].output_slots, output_slot)
      IN
      IF output_index < 0 THEN err("InvalidOutputNodeSlot")
      ELSE IF ~has_node(g, i.id) THEN err("InvalidNode")
      ELSE
        LET input_index == get_slot_index(g.nodes[i.id].input_slots, input_slot)
        IN
        IF input_index < 0 THEN err("InvalidInputNodeSlot")
        ELSE [res |-> "Ok", edge |-> SlotEdge(o.id, output_index, i.id, input_index)]

\* The head shared by try_add_node_edge and remove_node_edge.
resolve_node_edge(g, output_node, input_node) ==
    LET o == get_node_id(g, output_node)
        i == get_node_id(g, input_node)
    IN
    IF o.res # "Ok" THEN [res |-> o.res, edge |-> NoEdge]
    ELSE IF i.res # "Ok" THEN [res |-> i.res, edge |-> NoEdge]
    ELSE [res |-> "Ok", edge |-> NodeEdge(o.id, i.id)]

\* What a call reports: the graph after it, its result, the edge it built (NoEdge
\* when the labels did not resolve) and the occupying node of an occupied slot.
Outcome(g, res, edge, occ) == [g |-> g, res |-> res, edge |-> edge, occ |-> occ]

\* validate the resolved edge as absent, then insert it.
add_resolved(g, r) ==
    IF r.res # "Ok" THEN Outcome(g, r.res, NoEdge, NoId)
    ELSE LET v == validate_edge(g, r.edge, "DoesNotExist")
         IN IF v.res # "Ok" THEN Outcome(g, v.res, r.edge, v.occ)
            ELSE LET a == insert_edge(g, r.edge)
                 IN Outcome(a.g, a.res, r.edge, NoId)

\* validate the resolved edge as present, then delete it.
remove_resolved(g, r) ==
    IF r.res # "Ok" THEN Outcome(g, r.res, NoEdge, NoId)
    ELSE LET v == validate_edge(g, r.edge, "Exists")
         IN IF v.res # "Ok" THEN Outcome(g, v.res, r.edge, v.occ)
            ELSE LET a == delete_edge(g, r.edge)
                 IN Outcome(a.g, a.res, r.edge, NoId)

\* RenderGraph::try_add_slot_edge
try_add_slot_edge(g, output_node, output_slot, input_node, input_slot) ==
    add_resolved(g, resolve_slot_edge(g, output_node, output_slot, input_node, input_slot))

\* RenderGraph::remove_slot_edge
remove_slot_edge(g, output_node, output_slot, input_node, input_slot) ==
    remove_resolved(g, resolve_slot_edge(g, output_node, output_slot, input_node, input_slot))

\* RenderGraph::try_add_node_edge
try_add_node_edge(g, output_node, input_node) ==
    add_resolved(g, resolve_node_edge(g, output_node, input_node))

\* RenderGraph::remove_node_edge
remove_node_edge(g, output_node, input_node) ==
    remove_resolved(g, resolve_node_edge(g, output_node, input_node))

\* First loop of remove_node: each input edge of the removed node is taken out
\* of its producer's output_edges when the producer is still in the graph.
RECURSIVE strip_output_side(_, _, _)
strip_output_side(g, edges, i) ==
    IF i > Len(edges) THEN [g |-> g, res |-> "Ok"]
    ELSE
      LET edge == edges[i]
      IN IF ~has_node(g, edge.output_node) THEN strip_output_side(g, edges, i + 1)
         ELSE
           LET r == remove_edge_from(g.nodes[edge.output_node].edges.output_edges, edge)
           IN IF r.res # "Ok" THEN [g |-> g, res |-> r.res]
              ELSE strip_output_side(
                     [g EXCEPT !.nodes[edge.output_node].edges.output_edges = r.edges],
                     edges, i + 1)

\* Second loop of remove_node: each output edge of the removed node is taken out
\* of its consumer's input_edges when the consumer is still in the graph.
RECURSIVE strip_input_side(_, _, _)
strip_input_side(g, edges, i) ==
    IF i > Len(edges) THEN [g |-> g, res |-> "Ok"]
    ELSE
      LET edge == edges[i]
      IN IF ~has_node(g, edge.input_node) THEN strip_input_side(g, edges, i + 1)
         ELSE
           LET r == remove_edge_from(g.nodes[edge.input_node].edges.input_edges, edge)
           IN IF r.res # "Ok" THEN [g |-> g, res |-> r.res]
              ELSE strip_input_side(
                     [g EXCEPT !.nodes[edge.input_node].edges.input_edges = r.edges],
                     edges, i + 1)

\* remove_node without its second loop: the consumers keep the removed node's
\* output edges in their input_edges.
remove_node_first_loop_only(g, name) ==
    IF name \notin DOMAIN g.node_names THEN [g |-> g, res |-> "Ok"]
    ELSE
      LET id == g.node_names[name]
          g1 == [g EXCEPT !.node_names = map_remove(g.node_names, name)]
      IN
      IF ~has_node(g1, id) THEN [g |-> g1, res |-> "Ok"]
      ELSE
        LET node_state == g1.nodes[id]
            g2 == [g1 EXCEPT !.nodes = map_remove(g1.nodes, id)]
        IN strip_output_side(g2, node_state.edges.input_edges, 1)

\* RenderGraph::remove_node
remove_node(g, name) ==
    IF name \notin DOMAIN g.node_names THEN [g |-> g, res |-> "Ok"]
    ELSE
      LET id == g.node_names[name]
          g1 == [g EXCEPT !.node_names = map_remove(g.node_names, name)]
      IN
      IF ~has_node(g1, id) THEN [g |-> g1, res |-> "Ok"]
      ELSE
        LET node_state == g1.nodes[id]
            g2 == [g1 EXCEPT !.nodes = map_remove(g1.nodes, id)]
            a == strip_output_side(g2, node_state.edges.input_edges, 1)
        IN IF a.res # "Ok" THEN a
           ELSE strip_input_side(a.g, node_state.edges.output_edges, 1)

\* RenderGraph::set_input: the assert panics when an input node is already set.
\* set_input without the assertion that no input node has been set.
set_input_unasserted(g, inputs, id) ==
    [g |-> [add_node(g, INPUT_NODE_NAME, "GraphInputNode", inputs, id)
               EXCEPT !.input_node = id],
     res |-> "Ok"]

set_input(g, inputs, id) ==
    IF g.input_node # NoId THEN [g |-> g, res |-> "Panic"]
    ELSE [g |-> [add_node(g, INPUT_NODE_NAME, "GraphInputNode", inputs, id)
                    EXCEPT !.input_node = id],
          res |-> "Ok"]

\* RenderGraph::get_input_node, None as NoId.
get_input_node(g) ==
    IF g.input_node # NoId /\ has_node(g, g.input_node) THEN g.input_node ELSE NoId

\* RenderGraph::add_sub_graph
add_sub_graph(g, name, sub_graph) ==
    [g EXCEPT !.sub_graphs = map_insert(g.sub_graphs, name, sub_graph)]

(***************************************************************************)
(* Slot values and the per-invocation context (graph/context.rs).          *)
(***************************************************************************)
\* A SlotValue: its type tag and the resource handle it wraps.
SlotValue(slot_type, handle) == [slot_type |-> slot_type, handle |-> handle]

\* Option<SlotValue>::None in an output slice.
NoValue == [slot_type |-> "None", handle |-> 0]

\* A RunSubGraph request.
RunSubGraph(name, inputs) == [name |-> name, inputs |-> inputs]

\* The first index (0-based) at which `inputs` fails the schema `slots`, with the
\* error it fails with; "Ok" when every declared slot has a value of its type.
\* Values beyond the schema's length are not looked at.
RECURSIVE check_inputs(_, _, _)
check_inputs(slots, inputs, i) ==
    IF i >= Len(slots) THEN "Ok"
    ELSE IF i >= Len(inputs) THEN "MissingInput"
    ELSE IF slots[i + 1].slot_type # inputs[i + 1].slot_type THEN "MismatchedInputSlotType"
    ELSE check_inputs(slots, inputs, i + 1)

\* run_sub_graph putting a valid request in front of the queued ones.
run_sub_graph_in_front(g, run_sub_graphs, name, inputs) ==
    IF name \notin DOMAIN g.sub_graphs
    THEN [res |-> "MissingSubGraph", run_sub_graphs |-> run_sub_graphs]
    ELSE
      LET sub_graph == g.sub_graphs[name]
          input_node == get_input_node(sub_graph)
          checked == IF input_node # NoId
                     THEN check_inputs(sub_graph.nodes[input_node].input_slots, inputs, 0)
                     ELSE IF Len(inputs) > 0 THEN "SubGraphHasNoInputs" ELSE "Ok"
      IN IF checked # "Ok"
         THEN [res |-> checked, run_sub_graphs |-> run_sub_graphs]
         ELSE [res |-> "Ok",
               run_sub_graphs |-> << RunSubGraph(name, inputs) >> \o run_sub_graphs]

\* RenderGraphContext::run_sub_graph on the context's graph g and its queue of
\* requests: the request is validated and, when valid, appended.
run_sub_graph(g, run_sub_graphs, name, inputs) ==
    IF name \notin DOMAIN g.sub_graphs
    THEN [res |-> "MissingSubGraph", run_sub_graphs |-> run_sub_graphs]
    ELSE
      LET sub_graph == g.sub_graphs[name]
          input_node == get_input_node(sub_graph)
          checked == IF input_node # NoId
                     THEN check_inputs(sub_graph.nodes[input_node].input_slots, inputs, 0)
                     ELSE IF Len(inputs) > 0 THEN "SubGraphHasNoInputs" ELSE "Ok"
      IN IF checked # "Ok"
         THEN [res |-> checked, run_sub_graphs |-> run_sub_graphs]
         ELSE [res |-> "Ok",
               run_sub_graphs |-> Append(run_sub_graphs, RunSubGraph(name, inputs))]

\* set_output without the comparison of the value's type with the slot's type.
set_output_unchecked(node_state, outputs, label, value) ==
    LET slot_index == get_slot_index(node_state.output_slots, label)
    IN IF slot_index < 0 THEN [res |-> "InvalidSlot", outputs |-> outputs]
       ELSE [res |-> "Ok", outputs |-> [outputs EXCEPT ![slot_index + 1] = value]]

\* RenderGraphContext::set_output on the outputs slice of node_state.
set_output(node_state, outputs, label, value) ==
    LET slot_index == get_slot_index(node_state.output_slots, label)
    IN IF slot_index < 0 THEN [res |-> "InvalidSlot", outputs |-> outputs]
       ELSE IF value.slot_type # node_state.output_slots[slot_index + 1].slot_type
       THEN [res |-> "MismatchedSlotType", outputs |-> outputs]
       ELSE [res |-> "Ok", outputs |-> [outputs EXCEPT ![slot_index + 1] = value]]

(***************************************************************************)
(* Node::run of the node implementations.  What an implementation does in  *)
(* one invocation is its behaviour beh:                                    *)
(*   outcome  "ok"     it sets every declared output and returns Ok        *)
(*            "unset"  it returns Ok leaving its last declared output unset *)
(*            "err"    it returns an error                                 *)
(*   requests the run_sub_graph calls it makes first, each propagated with *)
(*            the ? operator                                               *)
(***************************************************************************)
Behaviour(outcome, requests) == [outcome |-> outcome, requests |-> requests]

\* The run_sub_graph calls of a run, in order, stopping at the first error.
RECURSIVE queue_requests(_, _, _, _)
queue_requests(g, run_sub_graphs, requests, i) ==
    IF i > Len(requests) THEN [res |-> "Ok", run_sub_graphs |-> run_sub_graphs]
    ELSE LET r == run_sub_graph(g, run_sub_graphs, requests[i].name, requests[i].inputs)
         IN IF r.res # "Ok" THEN r
            ELSE queue_requests(g, r.run_sub_graphs, requests, i + 1)

\* The value a node writes to its output slot i: of the declared type, with a
\* handle that names the node and the slot.
produced(node_state, i) ==
    SlotValue(node_state.output_slots[i + 1].slot_type, 10 * node_state.id + i)

\* set_output(i, value) for the output slots i, i + 1, ... below `upto`.
RECURSIVE set_outputs(_, _, _, _, _)
set_outputs(node_state, outputs, values, i, upto) ==
    IF i >= upto THEN [res |-> "Ok", outputs |-> outputs]
    ELSE LET r == set_output(node_state, outputs, SlotIndex(i), values[i + 1])
         IN IF r.res # "Ok" THEN r
            ELSE set_outputs(node_state, r.outputs, values, i + 1, upto)

\* Node::run: the result, the outputs slice and the queued requests it leaves.
\* GraphInputNode::run copies its inputs to its outputs position by position.
node_run(g, node_state, inputs, outputs, beh) ==
    LET fail == [res |-> "NodeRunError", outputs |-> outputs, run_sub_graphs |-> << >>]
    IN
    IF node_state.type_name = "GraphInputNode"
    THEN LET r == set_outputs(node_state, outputs, inputs, 0, Len(inputs))
         IN IF r.res # "Ok" THEN fail
            ELSE [res |-> "Ok", outputs |-> r.outputs, run_sub_graphs |-> << >>]
    ELSE
      LET q == queue_requests(g, << >>, beh.requests, 1)
          n == Len(node_state.output_slots)
          values == [i \in 1..n |-> produced(node_state, i - 1)]
          upto == IF beh.outcome = "unset" /\ n > 0 THEN n - 1 ELSE n
          r == set_outputs(node_state, outputs, values, 0, upto)
      IN IF q.res # "Ok" \/ beh.outcome = "err" \/ r.res # "Ok" THEN fail
         ELSE [res |-> "Ok", outputs |-> r.outputs, run_sub_graphs |-> q.run_sub_graphs]

(***************************************************************************)
(* Graph runner (runner.rs).  One activation of run_graph is a record      *)
(*   g, graph_name, inputs, node_outputs, node_queue : the parameters and  *)
(*       locals of run_graph                                               *)
(*       (node_queue[1] is the front of the VecDeque, its last element the  *)
(*       back)                                                             *)
(*   pc      "loop": at the head of the while loop;                        *)
(*           "sub_graphs": in the for loop over context.finish()           *)
(*   node, outputs, pending : the node being handled, its outputs slice    *)
(*       and the requests of context.finish() not yet run                  *)
(*   ran     the nodes whose run this activation invoked, in order         *)
(***************************************************************************)
\* graph_name: None, the name run() passes for the root graph.
NoName == "None"

\* A command pool selection under study: a frame counter, a pool count and, once
\* computed, the pool index of that frame and of the frame pool_num frames later.
Selection(current_frame, pool_num, done, index, later) ==
    [current_frame |-> current_frame, pool_num |-> pool_num, done |-> done,
     index |-> index, later |-> later]

NoSelection == Selection(0, 1, FALSE, 0, 0)

\* A Swapchain: the number of images it holds, the ring of acquire semaphores
\* (each semaphore object is named by a number; `created` counts the Semaphore::new
\* calls so far, so that a new object is one never seen before) and the ring index.
Swapchain(images, acquire_semaphores, current_semaphores_index, created) ==
    [images |-> images, acquire_semaphores |-> acquire_semaphores,
     current_semaphores_index |-> current_semaphores_index, created |-> created]

NoSwapchain == Swapchain(0, << >>, 0, 0)

\* A call on the swapchain: the operation, what the underlying call reported, the
\* result returned ("Ok", "Err" or "Panic"), the value of an Ok result, and the
\* semaphore handed to the underlying acquire (0 when none was).
SwapCall(op, reported, res, value, semaphore) ==
    [op |-> op, reported |-> reported, res |-> res, value |-> value, semaphore |-> semaphore]

NoSwapCall == SwapCall("none", "none", "Ok", FALSE, 0)

\* No activation.
NoFrame == [graph_name |-> NoName, pc |-> "none"]

push_front(q, x) == << x >> \o q

\* The nodes without input slots (the HashMap is iterated in an order the
\* program does not choose: any enumeration of them).
no_input_nodes(g) == {id \in DOMAIN g.nodes : Len(g.nodes[id].input_slots) = 0}

Enumerations(S) ==
    {q \in [1..Cardinality(S) -> S] : \A i, j \in 1..Cardinality(S) : q[i] = q[j] => i = j}

\* iter_node_outputs(id), pushed to the front of the queue edge by edge; the
\* unwrap in iter_node_outputs panics on an edge whose input node is not in the graph.
RECURSIVE enqueue_consumers(_, _, _, _)
enqueue_consumers(g, node_queue, edges, i) ==
    IF i > Len(edges) THEN [res |-> "Ok", node_queue |-> node_queue]
    ELSE IF ~has_node(g, edges[i].input_node)
         THEN [res |-> "Panic", node_queue |-> node_queue]
         ELSE enqueue_consumers(g, push_front(node_queue, edges[i].input_node), edges, i + 1)

\* The same loop with the push left out: no consumer is ever queued.
consumers_not_queued(g, node_queue, id) == [res |-> "Ok", node_queue |-> node_queue]

\* for (_, node_state) in graph.iter_node_outputs(id) { node_queue.push_front(node_state) }
queue_consumers(g, node_queue, id) ==
    enqueue_consumers(g, node_queue, g.nodes[id].edges.output_edges, 1)

\* The head of run_graph up to the while loop: the queue is seeded with the
\* nodes without inputs in the order `order`, the inputs are checked against
\* the input node and recorded as its outputs, its consumers are queued.
run_graph_begin(g, graph_name, inputs, order) ==
    LET input_node == get_input_node(g)
        frame(node_outputs, node_queue) ==
            [g |-> g, graph_name |-> graph_name, inputs |-> inputs,
             node_outputs |-> node_outputs,
             node_queue |-> node_queue, pc |-> "loop", node |-> NoId,
             outputs |-> << >>, pending |-> << >>, ran |-> << >>]
    IN
    IF input_node = NoId THEN [res |-> "Ok", frame |-> frame(EmptyMap, order)]
    ELSE
      LET input_slots == g.nodes[input_node].input_slots
          checked == check_inputs(input_slots, inputs, 0)
          input_values == SubSeq(inputs, 1, Len(input_slots))
          q == queue_consumers(g, order, input_node)
      IN IF checked # "Ok" THEN [res |-> checked, frame |-> frame(EmptyMap, order)]
         ELSE [res |-> q.res,
               frame |-> frame((input_node :> input_values), q.node_queue)]

\* The dependency check of one node: its input edges in list order.  "wait" when
\* a producer has no recorded outputs yet, "Panic" when a producer is not in the
\* graph or an output index is out of range, else "ready" with the
\* (input_index, value) pairs gathered from the slot edges.
\* The same check passing over node edges without looking at their producer.
RECURSIVE gather_inputs_node_edges_ignored(_, _, _, _, _)
gather_inputs_node_edges_ignored(g, node_outputs, edges, i, acc) ==
    IF i > Len(edges) THEN [st |-> "ready", pairs |-> acc]
    ELSE
      LET edge == edges[i]
      IN IF edge.kind = "NodeEdge"
         THEN gather_inputs_node_edges_ignored(g, node_outputs, edges, i + 1, acc)
         ELSE IF ~has_node(g, edge.output_node) THEN [st |-> "Panic", pairs |-> acc]
         ELSE IF edge.output_node \notin DOMAIN node_outputs THEN [st |-> "wait", pairs |-> acc]
         ELSE IF edge.output_index >= Len(node_outputs[edge.output_node])
              THEN [st |-> "Panic", pairs |-> acc]
              ELSE gather_inputs_node_edges_ignored(g, node_outputs, edges, i + 1,
                       Append(acc, << edge.input_index,
                                      node_outputs[edge.output_node][edge.output_index + 1] >>))

RECURSIVE gather_inputs(_, _, _, _, _)
gather_inputs(g, node_outputs, edges, i, acc) ==
    IF i > Len(edges) THEN [st |-> "ready", pairs |-> acc]
    ELSE
      LET edge == edges[i]
      IN IF ~has_node(g, edge.output_node) THEN [st |-> "Panic", pairs |-> acc]
         ELSE IF edge.output_node \notin DOMAIN node_outputs THEN [st |-> "wait", pairs |-> acc]
         ELSE IF edge.kind = "NodeEdge" THEN gather_inputs(g, node_outputs, edges, i + 1, acc)
         ELSE IF edge.output_index >= Len(node_outputs[edge.output_node])
              THEN [st |-> "Panic", pairs |-> acc]
              ELSE gather_inputs(g, node_outputs, edges, i + 1,
                       Append(acc, << edge.input_index,
                                      node_outputs[edge.output_node][edge.output_index + 1] >>))

\* sort_by_key on the index: a stable insertion sort.
RECURSIVE insert_sorted(_, _)
insert_sorted(sorted, pair) ==
    IF sorted = << >> THEN << pair >>
    ELSE IF sorted[Len(sorted)][1] <= pair[1] THEN Append(sorted, pair)
    ELSE Append(insert_sorted(SubSeq(sorted, 1, Len(sorted) - 1), pair), sorted[Len(sorted)])

\* The pairs left in the order the edges gave them.
sort_by_key_skipped(pairs, i, acc) == pairs

RECURSIVE sort_by_key(_, _, _)
sort_by_key(pairs, i, acc) ==
    IF i > Len(pairs) THEN acc ELSE sort_by_key(pairs, i + 1, insert_sorted(acc, pairs[i]))

\* The search for an unset output slot finding none.
none_unset(outputs, i) == -1

\* The first output slot (0-based) left unset, -1 when every slot is set.
RECURSIVE first_unset(_, _)
first_unset(outputs, i) ==
    IF i >= Len(outputs) THEN -1
    ELSE IF outputs[i + 1] = NoValue THEN i
    ELSE first_unset(outputs, i + 1)

\* One pass of the while loop without the comparison of the number of gathered
\* values with the number of declared input slots.
run_graph_iteration_uncounted(f, beh) ==
    LET n == Len(f.node_queue)
        id == f.node_queue[n]
        rest == [f EXCEPT !.node_queue = SubSeq(f.node_queue, 1, n - 1)]
        node_state == f.g.nodes[id]
        gathered == gather_inputs(f.g, f.node_outputs, node_state.edges.input_edges, 1, << >>)
        sorted == sort_by_key(gathered.pairs, 1, << >>)
        inputs == [i \in 1..Len(sorted) |-> sorted[i][2]]
        blank == [i \in 1..Len(node_state.output_slots) |-> NoValue]
        r == node_run(f.g, node_state, inputs, blank, beh)
    IN
    IF id \in DOMAIN f.node_outputs THEN [res |-> "running", node_name |-> NoName, inputs |-> << >>, frame |-> rest]
    ELSE IF gathered.st = "Panic" THEN [res |-> "Panic", node_name |-> NoName, inputs |-> << >>, frame |-> rest]
    ELSE IF gathered.st = "wait"
         THEN [res |-> "running", node_name |-> NoName, inputs |-> << >>,
               frame |-> [rest EXCEPT !.node_queue = push_front(rest.node_queue, id)]]
    ELSE [res |-> IF r.res = "Ok" THEN "running" ELSE r.res, node_name |-> NoName,
          inputs |-> inputs,
          frame |-> [rest EXCEPT !.pc = "sub_graphs", !.node = id,
                                 !.outputs = r.outputs, !.pending = r.run_sub_graphs,
                                 !.ran = Append(f.ran, id)]]

\* One pass of the while loop, from pop_back to context.finish(): the frame it
\* leaves and what run_graph does next ("running", or the result it returns with).
run_graph_iteration(f, beh) ==
    LET n == Len(f.node_queue)
        id == f.node_queue[n]
        rest == [f EXCEPT !.node_queue = SubSeq(f.node_queue, 1, n - 1)]
        node_state == f.g.nodes[id]
        gathered == gather_inputs(f.g, f.node_outputs, node_state.edges.input_edges, 1, << >>)
        sorted == sort_by_key(gathered.pairs, 1, << >>)
        inputs == [i \in 1..Len(sorted) |-> sorted[i][2]]
        blank == [i \in 1..Len(node_state.output_slots) |-> NoValue]
        r == node_run(f.g, node_state, inputs, blank, beh)
    IN
    IF id \in DOMAIN f.node_outputs THEN [res |-> "running", node_name |-> NoName, inputs |-> << >>, frame |-> rest]
    ELSE IF gathered.st = "Panic" THEN [res |-> "Panic", node_name |-> NoName, inputs |-> << >>, frame |-> rest]
    ELSE IF gathered.st = "wait"
         THEN [res |-> "running", node_name |-> NoName, inputs |-> << >>,
               frame |-> [rest EXCEPT !.node_queue = push_front(rest.node_queue, id)]]
    ELSE IF Len(inputs) # Len(node_state.input_slots)
         THEN [res |-> "MismatchedInputCount", node_name |-> node_state.name,
               inputs |-> << >>, frame |-> rest]
    ELSE [res |-> IF r.res = "Ok" THEN "running" ELSE r.res, node_name |-> NoName,
          inputs |-> inputs,
          frame |-> [rest EXCEPT !.pc = "sub_graphs", !.node = id,
                                 !.outputs = r.outputs, !.pending = r.run_sub_graphs,
                                 !.ran = Append(f.ran, id)]]

\* The tail of one pass, after the sub graphs of the node have run: every
\* output must be set, the outputs are recorded and the consumers queued.
run_graph_record(f) ==
    LET unset == first_unset(f.outputs, 0)
        q == queue_consumers(f.g, f.node_queue, f.node)
    IN IF unset >= 0 THEN [res |-> "EmptyNodeOutputSlot", slot_index |-> unset, frame |-> f]
       ELSE [res |-> IF q.res = "Ok" THEN "running" ELSE q.res, slot_index |-> -1,
             frame |-> [f EXCEPT !.node_outputs = map_insert(f.node_outputs, f.node, f.outputs),
                                 !.node_queue = q.node_queue,
                                 !.pc = "loop", !.node = NoId,
                                 !.outputs = << >>]]

(***************************************************************************)
(* State.                                                                  *)
(***************************************************************************)
\* No context has been created.
NoContext == [node |-> NoId, outputs |-> << >>, calls |-> << >>, res |-> "None"]

\* No id has been generated.
NoIds == [COUNTER |-> 1, issued |-> << >>, panicked |-> {}]

VARIABLES
    graph,      \* the RenderGraph under construction
    next_id,    \* the static COUNTER of NodeId::new
    last,       \* the most recent graph call: what was called and what it returned
    COUNTER,    \* the static COUNTER of FrameContext::new
    frames,     \* every FrameContext created so far, the current one last
    pc,         \* where the tick is: which system or which part of run() is next
    stack,      \* the activations of run_graph, the innermost last
    result,     \* what RenderGraphRunner::run returned in this tick, "None" before
    returned,   \* the most recent activation of run_graph that returned Ok
    log,        \* what happened in this tick, in order: node runs, finalizer, end, submit
    selected,   \* a command pool selection: the counter, the pool count, the indices computed
    swapchain,  \* a Swapchain: its images, its ring of acquire semaphores, the ring index
    swap_call,  \* the most recent call on the swapchain and what it returned
    context,    \* a RenderGraphContext: its node, its outputs slice, the set_output calls made
    node_ids    \* the static COUNTER of an atomic id type, and the ids each thread was given

graph_vars == << graph, next_id, last >>

frame_vars == << COUNTER, frames >>

run_vars == << pc, stack, result, returned, log >>

pool_vars == << selected >>

swap_vars == << swapchain, swap_call >>

context_vars == << context >>

id_vars == << node_ids >>

vars ==
    << graph, next_id, last, COUNTER, frames, pc, stack, result, returned, log, selected,
       swapchain, swap_call, context, node_ids >>

(***************************************************************************)
(* Graph construction: one action per public operation of RenderGraph.     *)
(***************************************************************************)
UserNames == {"a", "b"}

\* The schemas set_input is called with.
InputSchemas == { << SlotInfo("b", "Buffer") >> }

\* The labels a caller can name a node by: any name, and any NodeId handed out so far.
NodeLabels ==
    {LabelName(n) : n \in UserNames \cup {INPUT_NODE_NAME}}
        \cup {LabelId(i) : i \in 1..(next_id - 1)}

SlotLabels == {SlotIndex(0), SlotIndex(1), SlotName("v")}

RECURSIVE sum_over(_, _)
sum_over(f, S) ==
    IF S = {} THEN 0
    ELSE LET x == CHOOSE y \in S : TRUE IN f[x] + sum_over(f, S \ {x})

\* The number of edges stored in the graph's output-edge lists.
edge_count(g) ==
    sum_over([id \in DOMAIN g.nodes |-> Len(g.nodes[id].edges.output_edges)],
             DOMAIN g.nodes)

\* The total length of the edge lists of the nodes `ids` of g.
list_total(g, ids) ==
    sum_over([id \in ids |-> Len(g.nodes[id].edges.input_edges)
                               + Len(g.nodes[id].edges.output_edges)], ids)

\* A call as its caller sees it: the operation, its result, the edge it was about
\* (NoEdge when the labels did not resolve), the occupying node an occupied slot
\* reports, the NodeId it created or removed, and the number of edge-list entries
\* a remove_node took out of the nodes that remain.
Call(op, res, edge, occ, id, cut) ==
    [op |-> op, res |-> res, edge |-> edge, occ |-> occ, id |-> id, cut |-> cut]

Running == last.res # "Panic"

GraphInit ==
    /\ graph = DefaultGraph
    /\ next_id = 1
    /\ last = Call("new", "Ok", NoEdge, NoId, NoId, 0)
    /\ COUNTER = 0
    /\ frames = << >>
    /\ pc = "build"
    /\ stack = << >>
    /\ result = "None"
    /\ returned = NoFrame
    /\ log = << >>
    /\ selected = NoSelection
    /\ swapchain = NoSwapchain
    /\ swap_call = NoSwapCall
    /\ context = NoContext
    /\ node_ids = NoIds

AddNode(name, kind) ==
    /\ Running
    /\ next_id <= MaxId
    /\ graph' = add_node(graph, name, kind, << >>, next_id)
    /\ next_id' = next_id + 1
    /\ last' = Call("add_node", "Ok", NoEdge, NoId, next_id, 0)
    /\ UNCHANGED << frame_vars, run_vars, pool_vars, swap_vars, context_vars, id_vars >>

RemoveNode(name) ==
    /\ Running
    /\ LET r == remove_node(graph, name)
       IN /\ graph' = r.g
          /\ last' = Call("remove_node", r.res, NoEdge, NoId,
                          IF name \in DOMAIN graph.node_names
                          THEN graph.node_names[name] ELSE NoId,
                          list_total(graph, DOMAIN r.g.nodes)
                              - list_total(r.g, DOMAIN r.g.nodes))
    /\ UNCHANGED << next_id, frame_vars, run_vars, pool_vars, swap_vars, context_vars, id_vars >>

SetInput(inputs) ==
    /\ Running
    /\ graph.input_node = NoId => next_id <= MaxId
    /\ LET r == set_input(graph, inputs, next_id)
       IN /\ graph' = r.g
          /\ next_id' = IF r.res = "Ok" THEN next_id + 1 ELSE next_id
          /\ last' = Call("set_input", r.res, NoEdge, NoId,
                          IF r.res = "Ok" THEN next_id ELSE NoId, 0)
    /\ UNCHANGED << frame_vars, run_vars, pool_vars, swap_vars, context_vars, id_vars >>

EdgeCall(op, r) ==
    /\ graph' = r.g
    /\ last' = Call(op, r.res, r.edge, r.occ, NoId, 0)
    /\ UNCHANGED << next_id, frame_vars, run_vars, pool_vars, swap_vars, context_vars, id_vars >>

TryAddSlotEdge(output_node, output_slot, input_node, input_slot) ==
    /\ Running
    /\ edge_count(graph) < MaxEdges
    /\ EdgeCall("try_add_slot_edge",
                try_add_slot_edge(graph, output_node, output_slot, input_node, input_slot))

RemoveSlotEdge(output_node, output_slot, input_node, input_slot) ==
    /\ Running
    /\ EdgeCall("remove_slot_edge",
                remove_slot_edge(graph, output_node, output_slot, input_node, input_slot))

TryAddNodeEdge(output_node, input_node) ==
    /\ Running
    /\ edge_count(graph) < MaxEdges
    /\ EdgeCall("try_add_node_edge", try_add_node_edge(graph, output_node, input_node))

RemoveNodeEdge(output_node, input_node) ==
    /\ Running
    /\ EdgeCall("remove_node_edge", remove_node_edge(graph, output_node, input_node))

GraphNext ==
    \/ \E name \in UserNames, kind \in NodeKinds : AddNode(name, kind)
    \/ \E name \in UserNames \cup {INPUT_NODE_NAME} : RemoveNode(name)
    \/ \E inputs \in InputSchemas : SetInput(inputs)
    \/ \E on \in NodeLabels, os \in SlotLabels, in \in NodeLabels, is \in SlotLabels :
          TryAddSlotEdge(on, os, in, is)
    \/ \E on \in NodeLabels, os \in SlotLabels, in \in NodeLabels, is \in SlotLabels :
          RemoveSlotEdge(on, os, in, is)
    \/ \E on \in NodeLabels, in \in NodeLabels : TryAddNodeEdge(on, in)
    \/ \E on \in NodeLabels, in \in NodeLabels : RemoveNodeEdge(on, in)

SpecGraph == GraphInit /\ [][GraphNext]_vars

(***************************************************************************)
(* Properties of graph construction (checked under SpecGraph).             *)
(***************************************************************************)
\* The input-edge and output-edge lists of every node of g.
EdgeLists(g) == [id \in DOMAIN g.nodes |-> g.nodes[id].edges]

\* The declared types of the two slots a slot edge connects differ.
TypesDiffer(g, e) ==
    g.nodes[e.output_node].output_slots[e.output_index + 1].slot_type
        # g.nodes[e.input_node].input_slots[e.input_index + 1].slot_type

\* The slot edges bound, in g, to the input slot that slot edge e targets.
Occupants(g, e) ==
    slot_edges_at(g.nodes[e.input_node].edges.input_edges, e.input_index)

\* This step is a try_add_slot_edge whose labels resolved to a slot edge.
SlotEdgeAttempt ==
    /\ last'.op = "try_add_slot_edge"
    /\ last'.edge.kind = "SlotEdge"

\* C2 as stated: a try_add_slot_edge between slots of different declared types
\* returns MismatchedNodeSlots and leaves every edge list as it was.
C2_MismatchReported ==
    [][ (SlotEdgeAttempt /\ TypesDiffer(graph, last'.edge))
          => /\ last'.res = "MismatchedNodeSlots"
             /\ EdgeLists(graph') = EdgeLists(graph) ]_vars

\* C2 amended: a try_add_slot_edge between slots of different declared types fails
\* and leaves every edge list as it was; the error is NodeInputSlotAlreadyOccupied
\* when the target input slot already has a slot edge, MismatchedNodeSlots otherwise.
C2_MismatchRejected ==
    [][ (SlotEdgeAttempt /\ TypesDiffer(graph, last'.edge))
          => /\ last'.res = IF Len(Occupants(graph, last'.edge)) > 0
                            THEN "NodeInputSlotAlreadyOccupied"
                            ELSE "MismatchedNodeSlots"
             /\ EdgeLists(graph') = EdgeLists(graph) ]_vars

\* A try_add_slot_edge has just been refused for its slot types.
C2_Witness ==
    /\ last.op = "try_add_slot_edge"
    /\ last.res = "MismatchedNodeSlots"

\* C3: when the targeted input slot already has a slot edge e0, a
\* try_add_slot_edge of another edge to that slot fails with
\* NodeInputSlotAlreadyOccupied naming e0's output node, and e0 stays in the
\* edge lists of both of its endpoints.
C3_OccupiedSlotRejected ==
    [][ \A k \in 1..MaxEdges :
          (/\ SlotEdgeAttempt
           /\ k <= Len(Occupants(graph, last'.edge))
           /\ Occupants(graph, last'.edge)[k] # last'.edge)
          => LET e0 == Occupants(graph, last'.edge)[k]
             IN /\ last'.res = "NodeInputSlotAlreadyOccupied"
                /\ last'.occ = e0.output_node
                /\ has_edge(graph', e0) ]_vars

\* A try_add_slot_edge has just been refused because the slot was occupied, and
\* the occupying edge is in place.
C3_Witness ==
    /\ last.op = "try_add_slot_edge"
    /\ last.res = "NodeInputSlotAlreadyOccupied"
    /\ Len(Occupants(graph, last.edge)) = 1
    /\ has_edge(graph, Occupants(graph, last.edge)[1])
    /\ Occupants(graph, last.edge)[1].output_node = last.occ

\* Some edge list of g holds an edge with id as one of its endpoints.
Mentions(g, id) ==
    \E n \in DOMAIN g.nodes :
        \E e \in {g.nodes[n].edges.input_edges[i] :
                      i \in 1..Len(g.nodes[n].edges.input_edges)}
                 \cup {g.nodes[n].edges.output_edges[i] :
                      i \in 1..Len(g.nodes[n].edges.output_edges)} :
            e.input_node = id \/ e.output_node = id

\* C4: after remove_node(name) has returned, no edge list of a remaining node
\* holds an edge naming the NodeId the name resolved to.
C4_RemovedNodeUnreferenced ==
    [][ (last'.op = "remove_node" /\ last'.id # NoId)
          => ~Mentions(graph', last'.id) ]_vars

\* A remove_node has just removed a node and taken edges of it out of the lists
\* of nodes that remain.
C4_Witness ==
    /\ last.op = "remove_node"
    /\ last.id # NoId
    /\ last.cut > 0
    /\ ~Mentions(graph, last.id)

\* C5 as stated: an edge call that returns an error leaves the graph as it was.
C5_FailedCallLeavesGraph ==
    [][ (/\ last'.op \in {"try_add_slot_edge", "try_add_node_edge",
                          "remove_slot_edge", "remove_node_edge"}
         /\ last'.res # "Ok")
          => graph' = graph ]_vars

(***************************************************************************)
(* Frame context (extract/frame.rs, extract.rs).                           *)
(***************************************************************************)
\* usize arithmetic, at a word width scaled down to UsizeBits bits.
Word == 2 ^ UsizeBits

wrapping_add(x, y) == (x + y) % Word

\* FrameContext::new, reading the static COUNTER.  `alloc` is what the driver
\* does with the default command buffer: "ok", "alloc_err" (allocation fails, the
\* error is logged) or "begin_err" (begin fails, its result is dropped).
FrameContext_new(counter, alloc) ==
    [current_frame |-> wrapping_add(counter, 1),
     command_buffers |-> IF alloc = "alloc_err" THEN << >>
                         ELSE IF alloc = "begin_err" THEN << "initial" >>
                         ELSE << "recording" >>,
     submitted |-> FALSE,    \* queue.submit accepted the buffers with sync_fence
     signaled |-> FALSE,     \* the device finished the submission and signaled sync_fence
     observed |-> FALSE,     \* sync_fence.wait returned Ok
     freed |-> FALSE]        \* drop ran: the command buffers are freed

\* The value FrameContext::new leaves in COUNTER: it is read, never written.
COUNTER_after_new(counter) == counter

\* The index taken modulo one more than the pool count.
pool_index_off_by_one(current_frame, pool_num) == current_frame % (pool_num + 1)

\* The index active_command_pool computes, for a pool count pool_num.
pool_index(current_frame, pool_num) == current_frame % pool_num

(***************************************************************************)
(* The graphs a tick runs.  Each is built with the operations above: a sub *)
(* graph "sub" (an input node taking one Buffer, a Pass p fed by it, an    *)
(* EmptyNode q), and a root graph with a Src a, a Pass b, a Driver d and a *)
(* Sink s (its ImageView slot connected before its Buffer slot),           *)
(* any subset of the candidate edges, with or without an input node of     *)
(* empty schema.                                                           *)
(***************************************************************************)
\* A sub graph of the sub graph, which no node asks to run.
InnerGraph == add_node(DefaultGraph, "r", "EmptyNode", << >>, 9)

SubGraphTemplate ==
    LET g1 == set_input(DefaultGraph, << SlotInfo("b", "Buffer") >>, 1).g
        g2 == add_node(g1, "p", "Pass", << >>, 2)
        g3 == add_node(g2, "q", "EmptyNode", << >>, 3)
        g4 == add_sub_graph(g3, "inner", InnerGraph)
    IN try_add_slot_edge(g4, LabelName(INPUT_NODE_NAME), SlotIndex(0),
                         LabelName("p"), SlotName("b")).g

RootNodes ==
    LET g1 == add_node(DefaultGraph, "a", "Src", << >>, 4)
        g2 == add_node(g1, "b", "Pass", << >>, 5)
        g3 == add_node(g2, "d", "Driver", << >>, 6)
        g4 == add_node(g3, "s", "Sink", << >>, 7)
    IN add_sub_graph(g4, "sub", SubGraphTemplate)

\* The candidate edge calls, by number.
candidate_edge(g, k) ==
    CASE k = 1 -> try_add_slot_edge(g, LabelName("a"), SlotName("b"),
                                    LabelName("b"), SlotName("b")).g
      [] k = 2 -> try_add_node_edge(g, LabelName("a"), LabelName("d")).g
      [] k = 3 -> try_add_node_edge(g, LabelName("d"), LabelName("b")).g
      [] k = 4 -> try_add_node_edge(g, LabelName("b"), LabelName("a")).g
      [] k = 5 -> try_add_slot_edge(g, LabelName("b"), SlotName("v"),
                                    LabelName("s"), SlotName("v")).g
      [] k = 6 -> try_add_slot_edge(g, LabelName("a"), SlotName("c"),
                                    LabelName("s"), SlotName("b")).g
      [] k = 7 -> try_add_node_edge(g, LabelName("s"), LabelName("b")).g
      [] k = 8 -> try_add_node_edge(g, LabelName("b"), LabelName("d")).g
      [] OTHER -> g

RECURSIVE with_edges(_, _, _)
with_edges(g, chosen, k) ==
    IF k > MaxCandidate THEN g
    ELSE with_edges(IF k \in chosen THEN candidate_edge(g, k) ELSE g, chosen, k + 1)

\* The root graph after a node x was added and removed again and a node edge
\* from a to the NodeId x had was asked for.
DanglingGraph ==
    LET g1 == add_node(RootNodes, "x", "EmptyNode", << >>, 10)
        g2 == remove_node(g1, "x").g
    IN try_add_node_edge(g2, LabelName("a"), LabelId(10)).g

RunGraphs ==
    {with_edges(root, chosen, 1) :
        root \in {RootNodes, set_input(RootNodes, << >>, 8).g},
        chosen \in SUBSET (1..MaxCandidate)}
      \cup {DanglingGraph}

\* What a Driver asks for in one run.
SubGraphInput == SlotValue("Buffer", 1)

OtherInput == SlotValue("Buffer", 2)

RequestLists ==
    { << >>,
      << RunSubGraph("sub", << SubGraphInput >>) >>,
      << RunSubGraph("sub", << SubGraphInput >>), RunSubGraph("sub", << SubGraphInput >>) >>,
      << RunSubGraph("sub", << SubGraphInput >>), RunSubGraph("sub", << OtherInput >>) >>,
      << RunSubGraph("sub", << >>) >>,
      << RunSubGraph("sub", << SlotValue("ImageView", 2) >>) >>,
      << RunSubGraph("sub", << SubGraphInput, SlotValue("ImageView", 2) >>) >> }

\* The behaviours a node can show in one run.
Behaviours(node_state) ==
    {Behaviour(outcome, requests) :
        outcome \in {"ok", "err"}
            \cup (IF Len(node_state.output_slots) > 0 THEN {"unset"} ELSE {}),
        requests \in IF node_state.type_name = "Driver" THEN RequestLists ELSE {<< >>}}

(***************************************************************************)
(* One tick: extract_rendering_context, render_system (which calls         *)
(* RenderGraphRunner::run), release_referenced_rendering_context.          *)
(***************************************************************************)
\* An event of the log.  For a node's run: the graph and the node, the inputs its
\* run was given and the run_sub_graph calls it made.
Event(e, graph_name, node, inputs, requests) ==
    [e |-> e, graph_name |-> graph_name, node |-> node, inputs |-> inputs,
     requests |-> requests]

\* The update hook is called on the nodes `ids` of the graph, one after another.
\* The hooks change nothing the model holds, so the order among them (the
\* iteration order of the HashMap) is not observable; the log lists them as
\* CHOOSE picks them.
RECURSIVE update_nodes(_, _)
update_nodes(graph_name, ids) ==
    IF ids = {} THEN << >>
    ELSE LET id == CHOOSE x \in ids : TRUE
         IN << Event("update", graph_name, id, << >>, << >>) >>
                \o update_nodes(graph_name, ids \ {id})

\* update without the loop over the sub graphs.
update_without_sub_graphs(g, graph_name, names) ==
    IF names = DOMAIN g.sub_graphs THEN update_nodes(graph_name, DOMAIN g.nodes)
    ELSE << >>

\* RenderGraph::update, as the update calls it makes: first the loop over the
\* nodes (when names is all of the sub graphs, which is how it is called), then
\* the loop over the sub graphs `names`, each updated in turn.
RECURSIVE update(_, _, _)
update(g, graph_name, names) ==
    (IF names = DOMAIN g.sub_graphs THEN update_nodes(graph_name, DOMAIN g.nodes)
     ELSE << >>)
    \o (IF names = {} THEN << >>
        ELSE LET name == CHOOSE x \in names : TRUE
                 sub_graph == g.sub_graphs[name]
             IN update(sub_graph, name, DOMAIN sub_graph.sub_graphs)
                    \o update(g, graph_name, names \ {name}))

top == stack[Len(stack)]

replace_top(f) == [stack EXCEPT ![Len(stack)] = f]

current == frames[Len(frames)]

set_current(fc) == [frames EXCEPT ![Len(frames)] = fc]

\* run() going on to the finalizer whatever run_graph returned.
after_run_graph_unchecked(res) == IF res = "running" THEN "run_graph" ELSE "finalizer"

\* run_graph going on with its loop whatever the step returned.
after_run_graph_resumed(res) == "run_graph"

\* What run() does with the result of a step of run_graph: it goes on while the
\* step does not return, and on an error it returns the error (render_system
\* panics on it) without going on to the finalizer.
after_run_graph(res) == IF res = "running" THEN "run_graph" ELSE "panicked"

RunInit ==
    /\ graph \in RunGraphs
    /\ next_id = 11
    /\ last = Call("new", "Ok", NoEdge, NoId, NoId, 0)
    /\ COUNTER = 0
    /\ frames = << >>
    /\ pc = "extract"
    /\ stack = << >>
    /\ result = "None"
    /\ returned = NoFrame
    /\ log = << >>
    /\ selected = NoSelection
    /\ swapchain = NoSwapchain
    /\ swap_call = NoSwapCall
    /\ context = NoContext
    /\ node_ids = NoIds

\* extract_rendering_context
Extract(alloc) ==
    /\ pc = "extract"
    /\ Len(frames) < MaxFrames
    /\ frames' = Append(frames, FrameContext_new(COUNTER, alloc))
    /\ COUNTER' = COUNTER_after_new(COUNTER)
    /\ pc' = "render"
    /\ stack' = << >>
    /\ result' = "None"
    /\ returned' = NoFrame
    /\ log' = << >>
    /\ UNCHANGED << graph_vars, pool_vars, swap_vars, context_vars, id_vars >>

\* A step of run_graph with result res leaving the stack new_stack.
RunGraphStep(res, new_stack) ==
    /\ stack' = new_stack
    /\ pc' = after_run_graph(res)
    /\ result' = IF res = "running" THEN result ELSE res
    /\ UNCHANGED << graph_vars, pool_vars, swap_vars, context_vars, id_vars, frame_vars, returned >>

\* render_system calls graph.update and then RenderGraphRunner::run, which calls
\* run_graph on the root.
RunBegin(order) ==
    /\ pc = "render"
    /\ LET r == run_graph_begin(graph, NoName, << >>, order)
       IN RunGraphStep(IF r.res = "Ok" THEN "running" ELSE r.res, << r.frame >>)
    /\ log' = log \o update(graph, NoName, DOMAIN graph.sub_graphs)

\* One pass of the while loop of the innermost run_graph.
LoopIteration ==
    /\ pc = "run_graph"
    /\ top.pc = "loop"
    /\ top.node_queue # << >>
    /\ \E beh \in Behaviours(top.g.nodes[top.node_queue[Len(top.node_queue)]]) :
          LET r == run_graph_iteration(top, beh)
          IN /\ RunGraphStep(r.res, replace_top(r.frame))
             /\ log' = IF Len(r.frame.ran) > Len(top.ran)
                       THEN Append(log, Event(IF r.res = "running" THEN "run" ELSE "run_err",
                                              top.graph_name, r.frame.node,
                                              r.inputs, beh.requests))
                       ELSE log

\* The for loop over context.finish(): the next requested sub graph is run.
SubGraphBegin ==
    /\ pc = "run_graph"
    /\ top.pc = "sub_graphs"
    /\ top.pending # << >>
    /\ LET request == Head(top.pending)
           caller == [top EXCEPT !.pending = Tail(top.pending)]
           sub_graph == top.g.sub_graphs[request.name]
       IN \E order \in Enumerations(no_input_nodes(sub_graph)) :
             LET r == run_graph_begin(sub_graph, request.name, request.inputs, order)
             IN RunGraphStep(IF r.res = "Ok" THEN "running" ELSE r.res,
                             Append(replace_top(caller), r.frame))
    /\ UNCHANGED log

\* The end of a pass: the outputs of the node are checked and recorded.
RecordOutputs ==
    /\ pc = "run_graph"
    /\ top.pc = "sub_graphs"
    /\ top.pending = << >>
    /\ LET r == run_graph_record(top)
       IN RunGraphStep(r.res, replace_top(r.frame))
    /\ UNCHANGED log

\* The queue is empty: run_graph returns Ok, to the run_graph that called it or to run().
GraphReturn ==
    /\ pc = "run_graph"
    /\ top.pc = "loop"
    /\ top.node_queue = << >>
    /\ returned' = top
    /\ stack' = SubSeq(stack, 1, Len(stack) - 1)
    /\ pc' = IF Len(stack) = 1 THEN "finalizer" ELSE "run_graph"
    /\ UNCHANGED << graph_vars, pool_vars, swap_vars, context_vars, id_vars, frame_vars, result, log >>

\* run(): finalizer(frame_context)
Finalizer ==
    /\ pc = "finalizer"
    /\ log' = Append(log, Event("finalizer", NoName, NoId, << >>, << >>))
    /\ pc' = "end"
    /\ UNCHANGED << graph_vars, pool_vars, swap_vars, context_vars, id_vars, frame_vars, stack, result, returned >>

\* run(): frame_context.command_buffer(0).unwrap().end()
EndRecording(ok) ==
    /\ pc = "end"
    /\ IF current.command_buffers = << >>
       THEN /\ pc' = "panicked"
            /\ result' = "Panic"
            /\ UNCHANGED << frames, log >>
       ELSE IF ok
       THEN /\ pc' = "submit"
            /\ frames' = set_current([current EXCEPT !.command_buffers[1] = "executable"])
            /\ log' = Append(log, Event("end", NoName, NoId, << >>, << >>))
            /\ UNCHANGED result
       ELSE /\ pc' = "panicked"
            /\ result' = "SubmissionError"
            /\ UNCHANGED << frames, log >>
    /\ UNCHANGED << graph_vars, pool_vars, swap_vars, context_vars, id_vars, COUNTER, stack, returned >>

\* run(): frame_context.submit(queue)
Submit(ok) ==
    /\ pc = "submit"
    /\ IF ok
       THEN /\ pc' = "cleanup"
            /\ result' = "Ok"
            /\ frames' = set_current([current EXCEPT !.submitted = TRUE])
            /\ log' = Append(log, Event("submit", NoName, NoId, << >>, << >>))
       ELSE /\ pc' = "panicked"
            /\ result' = "SubmissionError"
            /\ UNCHANGED << frames, log >>
    /\ UNCHANGED << graph_vars, pool_vars, swap_vars, context_vars, id_vars, COUNTER, stack, returned >>

\* The device finishes a submission and signals its fence.
GpuComplete(k) ==
    /\ frames[k].submitted
    /\ ~frames[k].signaled
    /\ frames' = [frames EXCEPT ![k].signaled = TRUE]
    /\ UNCHANGED << graph_vars, pool_vars, swap_vars, context_vars, id_vars, COUNTER, run_vars >>

\* release_referenced_rendering_context: the resource is removed, sync_fence.wait(None)
\* returns (Ok once the fence is signaled, or an error) and its result is
\* dropped, then the context goes out of scope and drop frees the command buffers.
Release(wait_ok) ==
    /\ pc = "cleanup"
    /\ wait_ok => current.signaled
    /\ frames' = set_current([current EXCEPT !.observed = wait_ok, !.freed = TRUE])
    /\ pc' = "extract"
    /\ UNCHANGED << graph_vars, pool_vars, swap_vars, context_vars, id_vars, COUNTER, stack, result, returned, log >>

RunNext ==
    \/ \E alloc \in {"ok", "alloc_err", "begin_err"} : Extract(alloc)
    \/ \E order \in Enumerations(no_input_nodes(graph)) : RunBegin(order)
    \/ LoopIteration
    \/ SubGraphBegin
    \/ RecordOutputs
    \/ GraphReturn
    \/ Finalizer
    \/ \E ok \in BOOLEAN : EndRecording(ok)
    \/ \E ok \in BOOLEAN : Submit(ok)
    \/ \E k \in 1..Len(frames) : GpuComplete(k)
    \/ \E wait_ok \in BOOLEAN : Release(wait_ok)

SpecRun == RunInit /\ [][RunNext]_vars

(***************************************************************************)
(* Properties of a tick (checked under SpecRun).                           *)
(***************************************************************************)
\* The nodes the output edges of the nodes S lead to.
successors(g, S) ==
    {id \in DOMAIN g.nodes :
        \E n \in S \cap DOMAIN g.nodes :
            \E i \in 1..Len(g.nodes[n].edges.output_edges) :
                g.nodes[n].edges.output_edges[i].input_node = id}

RECURSIVE descendants(_, _, _)
descendants(g, S, k) ==
    IF k = 0 THEN {}
    ELSE LET T == successors(g, S) IN T \cup descendants(g, T, k - 1)

\* No node of g is reachable from itself along edges.
Acyclic(g) ==
    \A id \in DOMAIN g.nodes : id \notin descendants(g, {id}, Cardinality(DOMAIN g.nodes))

\* Every declared input slot of every node of g has a slot edge bound to it.
AllInputsConnected(g) ==
    \A id \in DOMAIN g.nodes :
        \A i \in 0..(Len(g.nodes[id].input_slots) - 1) :
            slot_edges_at(g.nodes[id].edges.input_edges, i) # << >>

\* How many times id occurs in the sequence ran.
times(ran, id) == Cardinality({i \in 1..Len(ran) : ran[i] = id})

\* An activation of run_graph has returned Ok on a graph the claim is about.
ReturnedWellFormed ==
    /\ returned # NoFrame
    /\ Acyclic(returned.g)
    /\ AllInputsConnected(returned.g)

\* C1 as stated: when run_graph returns on an acyclic graph whose declared input
\* slots are all connected by slot edges, it has invoked run on every node exactly
\* once and node_outputs holds exactly one entry per node.
C1_EveryNodeRunOnce ==
    ReturnedWellFormed =>
        /\ \A id \in DOMAIN returned.g.nodes : times(returned.ran, id) = 1
        /\ DOMAIN returned.node_outputs = DOMAIN returned.g.nodes

\* C1 amended: when run_graph returns Ok on an acyclic graph whose declared input
\* slots are all connected by slot edges, it has invoked run exactly once on every
\* node other than the graph's input node and never on the input node (whose entry
\* is recorded from the inputs passed in), and node_outputs holds exactly one entry
\* per node.
C1_EveryOrdinaryNodeRunOnce ==
    ReturnedWellFormed =>
        /\ \A id \in DOMAIN returned.g.nodes :
              times(returned.ran, id) = IF id = get_input_node(returned.g) THEN 0 ELSE 1
        /\ DOMAIN returned.node_outputs = DOMAIN returned.g.nodes

\* The root graph, with an input node, slot edges and a node edge, has been run to
\* the end: a, b, d and s have run.
C1_Witness ==
    /\ ReturnedWellFormed
    /\ returned.graph_name = NoName
    /\ get_input_node(returned.g) # NoId
    /\ Len(returned.g.nodes[5].edges.input_edges) = 2
    /\ Len(returned.ran) = 4

\* The errors run_graph returns with.
RunGraphErrors ==
    {"NodeRunError", "EmptyNodeOutputSlot", "MismatchedInputCount", "MissingInput",
     "MismatchedInputSlotType"}

\* A node's run has returned an error in this tick.
NodeErrored == \E i \in 1..Len(log) : log[i].e = "run_err"

\* The events of the log that are invocations of a node's run.
node_runs == SelectSeq(log, LAMBDA ev : ev.e \in {"run", "run_err"})

\* C6: if a node's run, or a nested sub graph's run, returns an error during
\* RenderGraphRunner::run, the finalizer is not invoked, the recording of the
\* frame's command buffer is not ended and nothing is submitted.
C6_ErrorSkipsSubmission ==
    (NodeErrored \/ result \in RunGraphErrors) =>
        /\ \A i \in 1..Len(log) : log[i].e \notin {"finalizer", "end", "submit"}
        /\ ~current.submitted
        /\ \A i \in 1..Len(current.command_buffers) : current.command_buffers[i] # "executable"

\* A node of a sub graph has returned an error: run has returned it, two levels up.
C6_Witness ==
    /\ NodeErrored
    /\ result = "NodeRunError"
    /\ Len(stack) = 2
    /\ pc = "panicked"
    /\ ~current.submitted

\* C7: once a node's run returns an error, run_graph returns that error and no
\* further node's run is invoked in that tick.
C7_ErrorStopsTheTick ==
    /\ [](NodeErrored => (result = "NodeRunError" /\ pc = "panicked"))
    /\ [][NodeErrored => node_runs' = node_runs]_vars

\* A node of the first of two requested sub graphs has returned an error while
\* the second request is still queued, a node of the sub graph is still in its
\* queue and a node of the enclosing graph is still in the enclosing queue.
C7_Witness ==
    /\ NodeErrored
    /\ Len(stack) = 2
    /\ stack[1].pending # << >>
    /\ stack[1].node_queue # << >>
    /\ stack[2].node_queue # << >>
    /\ log[Len(log)].e = "run_err"

\* C8 as stated: the command buffers of a frame are freed only after its
\* completion fence has been observed signaled; the buffers of a submitted frame
\* the device has not completed are never freed.
C8_FreedAfterFence ==
    \A k \in 1..Len(frames) :
        (frames[k].freed /\ frames[k].submitted) => (frames[k].signaled /\ frames[k].observed)

\* C9 as stated: every FrameContext::new gives the new context a frame counter
\* one greater, wrapping, than the context before it.
C9_CounterAdvances ==
    \A k \in 2..Len(frames) :
        frames[k].current_frame = wrapping_add(frames[k - 1].current_frame, 1)

(***************************************************************************)
(* Command pool selection, as a function of the frame counter and the pool *)
(* count.                                                                  *)
(***************************************************************************)
PoolInit ==
    /\ graph = DefaultGraph
    /\ next_id = 1
    /\ last = Call("new", "Ok", NoEdge, NoId, NoId, 0)
    /\ COUNTER = 0
    /\ frames = << >>
    /\ pc = "pool"
    /\ stack = << >>
    /\ result = "None"
    /\ returned = NoFrame
    /\ log = << >>
    /\ selected \in {Selection(c, n, FALSE, 0, 0) : c \in 0..(Word - 1), n \in 1..MaxPools}
    /\ swapchain = NoSwapchain
    /\ swap_call = NoSwapCall
    /\ context = NoContext
    /\ node_ids = NoIds

\* active_command_pool of the frame with counter current_frame, and of the frame
\* pool_num frames after it.
ActiveCommandPool ==
    /\ pc = "pool"
    /\ ~selected.done
    /\ selected' = [selected EXCEPT
                      !.done = TRUE,
                      !.index = pool_index(selected.current_frame, selected.pool_num),
                      !.later = pool_index(wrapping_add(selected.current_frame,
                                                        selected.pool_num),
                                           selected.pool_num)]
    /\ UNCHANGED << graph_vars, frame_vars, run_vars, swap_vars, context_vars, id_vars >>

PoolNext == ActiveCommandPool

SpecPool == PoolInit /\ [][PoolNext]_vars

\* C10 as stated: for every counter value c and pool count N, the frame with
\* counter c and the frame with counter c + N (wrapping) select the same pool.
C10_SamePoolEveryN ==
    selected.done => selected.index = selected.later

\* C10 amended: the frame with counter c and the frame with counter c + N select
\* the same pool whenever c + N does not wrap around the word size, or N divides
\* the word size.
C10_SamePoolUnlessWrapped ==
    (/\ selected.done
     /\ \/ selected.current_frame + selected.pool_num < Word
        \/ Word % selected.pool_num = 0)
        => selected.index = selected.later

\* Three pools, a counter that does not wrap: both frames select the same pool,
\* which is not pool 0.
C10_Witness ==
    /\ selected.done
    /\ selected.pool_num = 3
    /\ selected.current_frame + selected.pool_num < Word
    /\ selected.index = selected.later
    /\ selected.index = 2

\* C11 as stated: once FrameContext::new has returned, the command-buffer list of
\* the frame holds, at index 0, a command buffer that is recording, whatever the
\* tick does next up to the end of recording.
C11_RecordingBufferAfterNew ==
    pc \in {"render", "run_graph", "finalizer", "end"} =>
        /\ Len(current.command_buffers) >= 1
        /\ current.command_buffers[1] = "recording"

(***************************************************************************)
(* Swapchain (hlvk/src/swapchain.rs).                                      *)
(***************************************************************************)
\* `n as u8`
as_u8(n) == n % 256

\* The ring Swapchain::new and resize build: one new semaphore per image.
new_ring(images, created) == [i \in 1..images |-> created + i]

\* Swapchain::new, for the number of images the driver returned.
Swapchain_new(images, created) ==
    Swapchain(images, new_ring(images, created), 0, created + images)

\* Swapchain::destroy: the views and the images are cleared.
destroy(sc) == [sc EXCEPT !.images = 0]

\* Swapchain::resize.  `outcome` is "ok", "err" (one of the fallible calls after
\* destroy returns an error) or "panic" (Semaphore::new fails under unwrap);
\* `images` is the number of images the driver returns for the new swapchain.
resize(sc, outcome, images) ==
    IF outcome = "err" THEN [res |-> "Err", sc |-> destroy(sc)]
    ELSE IF outcome = "panic" THEN [res |-> "Panic", sc |-> destroy(sc)]
    ELSE [res |-> "Ok",
          sc |-> Swapchain(images, new_ring(images, sc.created), 0, sc.created + images)]

\* Swapchain::current_acquire_semaphore
current_acquire_semaphore(sc) == sc.acquire_semaphores[sc.current_semaphores_index + 1]

\* next_semaphore handing out the semaphore already in the slot.
next_semaphore_reused(sc, created_ok) ==
    IF as_u8(sc.images) = 0 THEN [res |-> "Panic", sc |-> sc, semaphore |-> 0]
    ELSE LET advanced == [sc EXCEPT !.current_semaphores_index =
                                      as_u8(sc.current_semaphores_index + 1) % as_u8(sc.images)]
         IN [res |-> "Ok", sc |-> advanced, semaphore |-> current_acquire_semaphore(advanced)]

\* Swapchain::next_semaphore.  The index is advanced first; Semaphore::new can
\* fail (created_ok = FALSE), and then the slot keeps its semaphore.
next_semaphore(sc, created_ok) ==
    IF as_u8(sc.images) = 0 THEN [res |-> "Panic", sc |-> sc, semaphore |-> 0]
    ELSE
      LET value == sc.current_semaphores_index
          advanced == [sc EXCEPT !.current_semaphores_index =
                                     as_u8(value + 1) % as_u8(sc.images)]
          index == as_u8(value + 1)
          slot == index % sc.images
          replaced == [advanced EXCEPT !.acquire_semaphores[slot + 1] = sc.created + 1,
                                       !.created = sc.created + 1]
      IN IF ~created_ok THEN [res |-> "Err", sc |-> advanced, semaphore |-> 0]
         ELSE [res |-> "Ok", sc |-> replaced, semaphore |-> current_acquire_semaphore(replaced)]

\* Swapchain::acquire_next_image.  `acquired` is what the underlying acquire
\* returns: "ok", "suboptimal" (Ok with is_suboptimal set) or "err".
acquire_next_image(sc, created_ok, acquired) ==
    LET r == next_semaphore(sc, created_ok)
    IN IF r.res # "Ok"
       THEN [sc |-> r.sc, call |-> SwapCall("acquire_next_image", "none", r.res, FALSE, 0)]
       ELSE [sc |-> r.sc,
             call |-> SwapCall("acquire_next_image", acquired,
                               IF acquired = "err" THEN "Err" ELSE "Ok",
                               acquired = "suboptimal", r.semaphore)]

\* What the underlying present can return: Ok(bool) or Err(code).
PresentOk(value) == [ok |-> TRUE, value |-> value, code |-> "SUCCESS"]

PresentErr(code) == [ok |-> FALSE, value |-> FALSE, code |-> code]

PresentReturns ==
    {PresentOk(FALSE), PresentOk(TRUE), PresentErr("ERROR_OUT_OF_DATE_KHR"),
     PresentErr("SUBOPTIMAL_KHR"), PresentErr("ERROR_DEVICE_LOST"),
     PresentErr("ERROR_SURFACE_LOST_KHR")}

\* What a return of the underlying present reports: Ok carries the suboptimal
\* flag, Err carries the result code.
present_reports(ret) ==
    IF ret.ok THEN (IF ret.value THEN "suboptimal" ELSE "success")
    ELSE IF ret.code = "ERROR_OUT_OF_DATE_KHR" THEN "out_of_date"
    ELSE IF ret.code = "SUBOPTIMAL_KHR" THEN "suboptimal"
    ELSE "failure"

\* Swapchain::queue_present: the match on the underlying return.
queue_present(ret) ==
    IF ret.ok THEN SwapCall("queue_present", present_reports(ret), "Ok", ret.value, 0)
    ELSE IF ret.code = "ERROR_OUT_OF_DATE_KHR" \/ ret.code = "SUBOPTIMAL_KHR"
         THEN SwapCall("queue_present", present_reports(ret), "Ok", FALSE, 0)
         ELSE SwapCall("queue_present", present_reports(ret), "Err", FALSE, 0)

ImageCounts == 2..MaxImages

SwapInit ==
    /\ graph = DefaultGraph
    /\ next_id = 1
    /\ last = Call("new", "Ok", NoEdge, NoId, NoId, 0)
    /\ COUNTER = 0
    /\ frames = << >>
    /\ pc = "swapchain"
    /\ stack = << >>
    /\ result = "None"
    /\ returned = NoFrame
    /\ log = << >>
    /\ selected = NoSelection
    /\ swapchain \in {Swapchain_new(images, 0) : images \in ImageCounts}
    /\ swap_call = SwapCall("new", "none", "Ok", FALSE, 0)
    /\ context = NoContext
    /\ node_ids = NoIds

SwapUnchanged ==
    UNCHANGED << graph_vars, frame_vars, run_vars, pool_vars, context_vars, id_vars >>

AcquireNextImage(created_ok, acquired) ==
    /\ pc = "swapchain"
    /\ swap_call.res # "Panic"
    /\ swapchain.created < MaxSemaphores
    /\ LET r == acquire_next_image(swapchain, created_ok, acquired)
       IN /\ swapchain' = r.sc
          /\ swap_call' = r.call
    /\ SwapUnchanged

QueuePresent(ret) ==
    /\ pc = "swapchain"
    /\ swap_call.res # "Panic"
    /\ swap_call' = queue_present(ret)
    /\ UNCHANGED swapchain
    /\ SwapUnchanged

Resize(outcome, images) ==
    /\ pc = "swapchain"
    /\ swap_call.res # "Panic"
    /\ swapchain.created + images <= MaxSemaphores
    /\ LET r == resize(swapchain, outcome, images)
       IN /\ swapchain' = r.sc
          /\ swap_call' = SwapCall("resize", outcome, r.res, FALSE, 0)
    /\ SwapUnchanged

SwapNext ==
    \/ \E created_ok \in BOOLEAN, acquired \in {"ok", "suboptimal", "err"} :
          AcquireNextImage(created_ok, acquired)
    \/ \E ret \in PresentReturns : QueuePresent(ret)
    \/ \E outcome \in {"ok", "err", "panic"}, images \in ImageCounts : Resize(outcome, images)

SpecSwap == SwapInit /\ [][SwapNext]_vars

\* The set of semaphore objects in a ring.
ring_objects(sc) == {sc.acquire_semaphores[i] : i \in 1..Len(sc.acquire_semaphores)}

\* This step is a resize that returned Ok.
ResizeSucceeds == swap_call'.op = "resize" /\ swap_call'.res = "Ok"

\* C12 as stated: after a successful resize the ring holds the same semaphore
\* objects as before when the image count is the same, and otherwise holds only
\* new objects, one per image of the new count.
C12_RingKeptOnSameCount ==
    [][ ResizeSucceeds =>
          IF swapchain'.images = swapchain.images
          THEN swapchain'.acquire_semaphores = swapchain.acquire_semaphores
          ELSE /\ ring_objects(swapchain') \cap ring_objects(swapchain) = {}
               /\ Len(swapchain'.acquire_semaphores) = swapchain'.images ]_vars

\* C13 as stated: queue_present returns Ok(false) when the underlying present
\* reports out-of-date or suboptimal, and an error for every other failure
\* the underlying present reports.
C13_SoftFailureIsFalse ==
    swap_call.op = "queue_present" =>
        /\ swap_call.reported \in {"out_of_date", "suboptimal"}
              => (swap_call.res = "Ok" /\ swap_call.value = FALSE)
        /\ swap_call.reported = "failure" => swap_call.res = "Err"

\* This step is an acquire_next_image that got as far as the underlying acquire.
AcquireReached == swap_call'.op = "acquire_next_image" /\ swap_call'.semaphore # 0

ExactMatch(slots, inputs) ==
    /\ Len(inputs) = Len(slots)
    /\ \A i \in 1..Len(slots) : inputs[i].slot_type = slots[i].slot_type

\* The schema of the input node of g (empty when g has none).
input_schema(g) ==
    IF get_input_node(g) = NoId THEN << >> ELSE g.nodes[get_input_node(g)].input_slots

\* The graph an activation or an event names.
graph_named(graph_name) == IF graph_name = NoName THEN graph ELSE graph.sub_graphs[graph_name]

\* C15 as stated: a run_sub_graph call whose inputs do not match the input-node
\* schema of the sub graph in count or in type queues no request and runs no
\* node of the sub graph: every request queued and every sub graph being run
\* has inputs that match the schema exactly.
C15_MismatchNeverQueued ==
    \A k \in 1..Len(stack) :
        /\ \A j \in 1..Len(stack[k].pending) :
              LET sub_graph == stack[k].g.sub_graphs[stack[k].pending[j].name]
              IN get_input_node(sub_graph) # NoId
                    => ExactMatch(input_schema(sub_graph), stack[k].pending[j].inputs)
        /\ (stack[k].graph_name # NoName /\ get_input_node(stack[k].g) # NoId)
              => ExactMatch(input_schema(stack[k].g), stack[k].inputs)

\* C16 as stated: run_sub_graph on a sub graph that has an input node succeeds
\* only if the inputs have exactly the length of the schema and each position has
\* the declared type: every run that returned Ok made only such calls.
C16_SucceedsOnlyOnExactInputs ==
    \A i \in 1..Len(log) :
        log[i].e = "run" =>
            \A j \in 1..Len(log[i].requests) :
                LET sub_graph == graph_named(log[i].graph_name).sub_graphs[log[i].requests[j].name]
                IN get_input_node(sub_graph) # NoId
                      => ExactMatch(input_schema(sub_graph), log[i].requests[j].inputs)

\* C17 as stated: the outputs recorded for the input node of a graph are exactly
\* the inputs run_graph was given: same length, same values, same order.
C17_InputNodeOutputsAreInputs ==
    \A k \in 1..Len(stack) :
        (get_input_node(stack[k].g) # NoId
            /\ get_input_node(stack[k].g) \in DOMAIN stack[k].node_outputs)
          => stack[k].node_outputs[get_input_node(stack[k].g)] = stack[k].inputs

\* This step invokes a node's run.
NodeRunStep == Len(node_runs') > Len(node_runs)

\* C18: for every slot edge from output slot i of P to input slot j of C, the
\* value C's run is given at position j is the value recorded for output slot i
\* of P; and the outputs recorded for a node are the values it set, in
\* output-slot-index order.
C18_ValuesFollowEdges ==
    /\ [](\A k \in 1..Len(stack) :
            \A id \in DOMAIN stack[k].node_outputs :
                id # get_input_node(stack[k].g) =>
                    stack[k].node_outputs[id]
                        = [i \in 1..Len(stack[k].g.nodes[id].output_slots)
                              |-> produced(stack[k].g.nodes[id], i - 1)])
    /\ [][ NodeRunStep =>
             LET event == log'[Len(log')]
                 edges == top.g.nodes[event.node].edges.input_edges
             IN \A i \in 1..Len(edges) :
                   edges[i].kind = "SlotEdge" =>
                       event.inputs[edges[i].input_index + 1]
                           = top.node_outputs[edges[i].output_node][edges[i].output_index + 1]
          ]_vars

\* The Sink s, whose ImageView edge is listed before its Buffer edge, has run
\* with the Buffer of a's slot c at position 0 and the ImageView of b's slot v at
\* position 1.
C18_Witness ==
    \E i \in 1..Len(log) :
        /\ log[i].e = "run"
        /\ log[i].node = 7
        /\ graph.nodes[7].edges.input_edges[1].input_index = 1
        /\ log[i].inputs = << SlotValue("Buffer", 41), SlotValue("ImageView", 50) >>

(***************************************************************************)
(* Further properties of graph construction (SpecGraph).                   *)
(***************************************************************************)
\* No element occurs twice in the list.
NoDuplicates(edges) ==
    \A i, j \in 1..Len(edges) : edges[i] = edges[j] => i = j

\* This step is a call that adds an edge, or one that removes an edge, and its
\* labels resolved to an edge.
AddAttempt ==
    /\ last'.op \in {"try_add_slot_edge", "try_add_node_edge"}
    /\ last'.edge # NoEdge

RemoveAttempt ==
    /\ last'.op \in {"remove_slot_edge", "remove_node_edge"}
    /\ last'.edge # NoEdge

stored_slot_edges(g) ==
    {e \in UNION {{g.nodes[id].edges.input_edges[i] :
                        i \in 1..Len(g.nodes[id].edges.input_edges)}
                    \cup {g.nodes[id].edges.output_edges[i] :
                        i \in 1..Len(g.nodes[id].edges.output_edges)} :
                  id \in DOMAIN g.nodes} :
        e.kind = "SlotEdge"}

\* C20: in every reachable graph, every stored SlotEdge connects an output slot
\* and an input slot, of nodes of the graph, that have the same declared type.
C20_StoredSlotEdgesTyped ==
    \A e \in stored_slot_edges(graph) :
        /\ has_node(graph, e.output_node)
        /\ has_node(graph, e.input_node)
        /\ e.output_index < Len(graph.nodes[e.output_node].output_slots)
        /\ e.input_index < Len(graph.nodes[e.input_node].input_slots)
        /\ ~TypesDiffer(graph, e)

\* A slot edge is stored and an edge between slots of different types has just
\* been rejected for its types.
C20_Witness ==
    /\ stored_slot_edges(graph) # {}
    /\ last.op = "try_add_slot_edge"
    /\ last.res = "MismatchedNodeSlots"

\* C21: in every reachable graph, for every node and every input slot index, the
\* node's input-edge list holds at most one SlotEdge with that input_index.
C21_OneProducerPerInputSlot ==
    \A id \in DOMAIN graph.nodes :
        \A index \in 0..Len(graph.nodes[id].input_slots) :
            Len(slot_edges_at(graph.nodes[id].edges.input_edges, index)) <= 1

\* An input slot holds its one edge and a second producer has just been refused.
C21_Witness ==
    /\ last.op = "try_add_slot_edge"
    /\ last.res = "NodeInputSlotAlreadyOccupied"
    /\ has_node(graph, last.edge.input_node)
    /\ Len(slot_edges_at(graph.nodes[last.edge.input_node].edges.input_edges,
                         last.edge.input_index)) = 1
    /\ last.edge.output_index # Occupants(graph, last.edge)[1].output_index

\* The nodes of g that are synthetic input nodes.
input_nodes(g) == {id \in DOMAIN g.nodes : g.nodes[id].type_name = "GraphInputNode"}

\* C22: a graph has 0 or 1 input node in every reachable state; a set_input on a
\* graph without one creates the synthetic input node, and a set_input on a
\* graph that already had one panics and adds no node.
C22_AtMostOneInputNode ==
    /\ [](Cardinality(input_nodes(graph)) <= 1)
    /\ [](get_input_node(graph) # NoId => input_nodes(graph) = {graph.input_node})
    /\ [][ (last'.op = "set_input" /\ graph.input_node = NoId)
              => /\ last'.res = "Ok"
                 /\ input_nodes(graph') = {last'.id}
                 /\ graph'.input_node = last'.id
                 /\ DOMAIN graph'.nodes = DOMAIN graph.nodes \cup {last'.id} ]_vars
    /\ [][ (last'.op = "set_input" /\ graph.input_node # NoId)
              => (last'.res = "Panic" /\ graph' = graph) ]_vars

\* A second set_input has just panicked on a graph that holds its input node.
C22_Witness ==
    /\ last.op = "set_input"
    /\ last.res = "Panic"
    /\ Cardinality(input_nodes(graph)) = 1

\* The nodes of g whose NodeState carries the name.
named(g, name) == {id \in DOMAIN g.nodes : g.nodes[id].name = name}

\* C23: add_node with a name that is already present replaces the previous node:
\* afterwards the name resolves to the new NodeId and the graph holds exactly one
\* node carrying that name.
C23_AddNodeReplaces ==
    [][ \A name \in UserNames :
          (last'.op = "add_node" /\ name \in DOMAIN graph.node_names
              /\ graph'.nodes[last'.id].name = name)
          => /\ get_node_id(graph', LabelName(name)).id = last'.id
             /\ named(graph', name) = {last'.id} ]_vars

(***************************************************************************)
(* One node invocation's context (SpecContext): the runner creates the     *)
(* outputs slice with None in every declared output slot and the context   *)
(* over it; the node's run then calls set_output any number of times.      *)
(***************************************************************************)
MaxCalls == 3

MaxHandle == 2

\* The nodes a context is created for.
ContextNodes == {NodeState_new(1, "a", kind, << >>) : kind \in {"Src", "Pass"}}

\* The values and labels a run hands to set_output.
OutputValues == {SlotValue(t, h) : t \in {"Buffer", "ImageView"}, h \in 1..MaxHandle}

OutputLabels == {SlotIndex(0), SlotIndex(1), SlotName("c"), SlotName("v")}

\* The outputs slice run_graph allocates and RenderGraphContext::new over it.
RenderGraphContext_new(node_state) ==
    [node |-> node_state,
     outputs |-> [i \in 1..Len(node_state.output_slots) |-> NoValue],
     calls |-> << >>,
     res |-> "new"]

ContextInit ==
    /\ graph = DefaultGraph
    /\ next_id = 1
    /\ last = Call("new", "Ok", NoEdge, NoId, NoId, 0)
    /\ COUNTER = 0
    /\ frames = << >>
    /\ pc = "context"
    /\ stack = << >>
    /\ result = "None"
    /\ returned = NoFrame
    /\ log = << >>
    /\ selected = NoSelection
    /\ swapchain = NoSwapchain
    /\ swap_call = NoSwapCall
    /\ context \in {RenderGraphContext_new(n) : n \in ContextNodes}
    /\ node_ids = NoIds

SetOutput(label, value) ==
    /\ pc = "context"
    /\ Len(context.calls) < MaxCalls
    /\ LET r == set_output(context.node, context.outputs, label, value)
       IN context' = [context EXCEPT !.outputs = r.outputs,
                                     !.calls = Append(@, [label |-> label, value |-> value]),
                                     !.res = r.res]
    /\ UNCHANGED << graph_vars, frame_vars, run_vars, pool_vars, swap_vars, id_vars >>

ContextNext == \E label \in OutputLabels, value \in OutputValues : SetOutput(label, value)

SpecContext == ContextInit /\ [][ContextNext]_vars

\* The call is a set_output on the declared output slot i with a value of its type.
WellTyped(node_state, call, i) ==
    /\ get_slot_index(node_state.output_slots, call.label) = i
    /\ call.value.slot_type = node_state.output_slots[i + 1].slot_type

\* The value of the last of the first n calls that is well typed for slot i.
RECURSIVE last_well_typed(_, _, _, _)
last_well_typed(node_state, calls, i, n) ==
    IF n = 0 THEN NoValue
    ELSE IF WellTyped(node_state, calls[n], i) THEN calls[n].value
    ELSE last_well_typed(node_state, calls, i, n - 1)

\* C24: within one invocation a set_output with a value whose type differs from
\* the declared type of the slot returns MismatchedSlotType and leaves the
\* outputs as they were, a well-typed set_output replaces the slot's value, and
\* every slot holds the last well-typed value set for it.
C24_LastWellTypedWriteWins ==
    /\ [][ LET call == context'.calls[Len(context'.calls)]
               slots == context.node.output_slots
               i == get_slot_index(slots, call.label)
           IN i >= 0 =>
                IF call.value.slot_type # slots[i + 1].slot_type
                THEN context'.res = "MismatchedSlotType"
                        /\ context'.outputs = context.outputs
                ELSE context'.res = "Ok"
                        /\ context'.outputs = [context.outputs EXCEPT ![i + 1] = call.value]
         ]_vars
    /\ [](\A i \in 0..(Len(context.outputs) - 1) :
            context.outputs[i + 1]
                = last_well_typed(context.node, context.calls, i, Len(context.calls)))

\* A slot was set, set again with another value of its type, and then a value of
\* another type was refused: the slot holds the second value.
C24_Witness ==
    /\ Len(context.calls) = 3
    /\ context.res = "MismatchedSlotType"
    /\ WellTyped(context.node, context.calls[1], 0)
    /\ WellTyped(context.node, context.calls[2], 0)
    /\ context.calls[1].value # context.calls[2].value
    /\ get_slot_index(context.node.output_slots, context.calls[3].label) = 0
    /\ context.outputs[1] = context.calls[2].value

(***************************************************************************)
(* Atomic ids (SpecIds): define_atomic_id!(NodeId).  The static COUNTER is *)
(* an AtomicU32, here IdBits wide; a call is one fetch_add, which is       *)
(* atomic, so concurrent callers are calls in some order.  A call that     *)
(* reads 0 panics in its thread; the other threads go on.                  *)
(***************************************************************************)
IdBits == 3

IdWord == 2 ^ IdBits

\* The threads that call NodeId::new.
Threads == {"main", "worker"}

\* The calls of NodeId::new made in a run of the process.
MaxNew == IdWord + 2

\* NodeId::new on the COUNTER value counter: fetch_add(1) returns the previous
\* value and wraps; NonZeroU32::new of 0 is None, which panics.
NodeId_new(counter) ==
    [COUNTER |-> (counter + 1) % IdWord,
     res |-> IF counter = 0 THEN "Panic" ELSE "Ok",
     id |-> counter]

IdsInit ==
    /\ graph = DefaultGraph
    /\ next_id = 1
    /\ last = Call("new", "Ok", NoEdge, NoId, NoId, 0)
    /\ COUNTER = 0
    /\ frames = << >>
    /\ pc = "ids"
    /\ stack = << >>
    /\ result = "None"
    /\ returned = NoFrame
    /\ log = << >>
    /\ selected = NoSelection
    /\ swapchain = NoSwapchain
    /\ swap_call = NoSwapCall
    /\ context = NoContext
    /\ node_ids = NoIds

New(thread) ==
    /\ pc = "ids"
    /\ thread \notin node_ids.panicked
    /\ Len(node_ids.issued) + Cardinality(node_ids.panicked) < MaxNew
    /\ LET r == NodeId_new(node_ids.COUNTER)
       IN node_ids' =
            [COUNTER |-> r.COUNTER,
             issued |-> IF r.res = "Ok"
                        THEN Append(node_ids.issued, [thread |-> thread, id |-> r.id])
                        ELSE node_ids.issued,
             panicked |-> IF r.res = "Ok" THEN node_ids.panicked
                          ELSE node_ids.panicked \cup {thread}]
    /\ UNCHANGED << graph_vars, frame_vars, run_vars, pool_vars, swap_vars, context_vars >>

IdsNext == \E thread \in Threads : New(thread)

SpecIds == IdsInit /\ [][IdsNext]_vars

\* C25: no two calls of NodeId::new return equal ids, for any number of calls and
\* any order of concurrent callers.
C25_IdsNeverEqual ==
    \A i, j \in 1..Len(node_ids.issued) :
        node_ids.issued[i].id = node_ids.issued[j].id => i = j

(***************************************************************************)
(* Further properties of a tick (SpecRun).                                 *)
(***************************************************************************)
\* The nodes of g and of its sub graphs, nested to any depth, each with the name
\* of the graph that holds it.
RECURSIVE all_nodes(_, _)
all_nodes(g, graph_name) ==
    {<< graph_name, id >> : id \in DOMAIN g.nodes}
        \cup UNION {all_nodes(g.sub_graphs[name], name) : name \in DOMAIN g.sub_graphs}

\* How many times the update hook of the node has been called in this tick.
updates(graph_name, id) ==
    Len(SelectSeq(log, LAMBDA ev : ev.e = "update" /\ ev.graph_name = graph_name
                                      /\ ev.node = id))

\* C26: once render_system has called update, the update hook has been invoked
\* exactly once on every node of the graph and of every nested sub graph, and
\* within the tick every update precedes every invocation of a node's run.
C26_UpdatedOnceBeforeRuns ==
    pc \notin {"extract", "render"} =>
        /\ \A p \in all_nodes(graph, NoName) : updates(p[1], p[2]) = 1
        /\ \A i, j \in 1..Len(log) :
              (log[i].e = "update" /\ log[j].e \in {"run", "run_err"}) => i < j

\* A node of the sub graph has run, and the node of the sub graph's own sub graph
\* was updated once.
C26_Witness ==
    /\ \E i \in 1..Len(log) : log[i].e = "run" /\ log[i].graph_name = "sub"
    /\ << "inner", 9 >> \in all_nodes(graph, NoName)
    /\ updates("inner", 9) = 1

\* The elements of a sequence.
Range(q) == {q[i] : i \in 1..Len(q)}

AddsToWorkList ==
    /\ pc = "run_graph"
    /\ pc' = "run_graph"
    /\ Len(stack') = Len(stack)
    /\ top.pc = "sub_graphs"
    /\ top'.pc = "loop"
    /\ Len(top'.node_queue) > Len(top.node_queue)

\* The node the next pass of the loop takes from the work list f.node_queue.
next_considered(f) == f.node_queue[Len(f.node_queue)]

\* C28: run_graph takes nodes from its work list most-recently-added first: when
\* nodes have just been added, the one added last is the next one considered.
C28_LastAddedConsideredNext ==
    [][ AddsToWorkList => next_considered(top') = top'.node_queue[1] ]_vars

\* The nodes of g reachable from the nodes S in 1..k steps along edges, without
\* passing through the node `avoid`.
RECURSIVE reachable(_, _, _, _)
reachable(g, S, k, avoid) ==
    IF k = 0 THEN {}
    ELSE LET T == successors(g, S) \ {avoid}
         IN T \cup reachable(g, T, k - 1, avoid)

\* The nodes of g that lie on a cycle of its edges which does not pass through
\* the graph's input node (whose outputs are recorded before the loop starts).
cycle_nodes(g) ==
    {id \in DOMAIN g.nodes \ {get_input_node(g)} :
        id \in reachable(g, {id}, Cardinality(DOMAIN g.nodes), get_input_node(g))}

\* C29 as stated: if the edge set of a graph contains a cycle, run_graph on it
\* never terminates: it returns neither Ok nor an error.
C29_CycleNeverTerminates ==
    /\ [][ (pc = "run_graph" /\ Len(stack') < Len(stack)) => Acyclic(top.g) ]_vars
    /\ [][ (pc = "run_graph" /\ pc' = "panicked") =>
              \A k \in 1..Len(stack) : Acyclic(stack[k].g) ]_vars

\* C29 amended: a node on a cycle is never run, and once it is on the work list of
\* a run_graph it is on it after every later step of that run_graph, so that
\* run_graph never returns Ok: it loops until the failure of another node, if
\* any, ends it with an error.
C29_QueuedCycleNeverReturnsOk ==
    /\ [](\A k \in 1..Len(stack) : Range(stack[k].ran) \cap cycle_nodes(stack[k].g) = {})
    /\ [][ pc = "run_graph" =>
             \A k \in 1..Len(stack) :
                \A n \in Range(stack[k].node_queue) \cap cycle_nodes(stack[k].g) :
                    \/ pc' = "panicked"
                    \/ /\ pc' = "run_graph"
                       /\ k <= Len(stack')
                       /\ n \in Range(stack'[k].node_queue) ]_vars

\* Every other node of the root graph that could run has run and only nodes of a
\* cycle are left on the work list, going round.
C29_Witness ==
    /\ pc = "run_graph"
    /\ Len(stack) = 1
    /\ top.pc = "loop"
    /\ top.ran # << >>
    /\ top.node_queue # << >>
    /\ Range(top.node_queue) \subseteq cycle_nodes(top.g)

\* The events of the log after position i that are invocations of node id of
\* the graph called graph_name.
runs_after(i, graph_name, id) ==
    SelectSeq(SubSeq(log, i + 1, Len(log)),
              LAMBDA ev : ev.e \in {"run", "run_err"} /\ ev.graph_name = graph_name
                              /\ ev.node = id)

\* C30: the sub graph runs a node requested are executed in the order of its
\* run_sub_graph calls, each to completion, after the node's run has returned,
\* before any other node of the outer graph is run and before the node's own
\* outputs are recorded.
C30_SubGraphsInCallOrder ==
    \* a run that returns Ok leaves its requests, in call order, to be executed
    /\ [][ (NodeRunStep /\ pc' = "run_graph")
              => top'.pending = log'[Len(log')].requests ]_vars
    \* a sub graph run starts from the first request not yet executed of a node
    \* whose run has returned and whose outputs are not recorded
    /\ [][ (pc = "run_graph" /\ Len(stack') > Len(stack)) =>
              /\ top.pc = "sub_graphs"
              /\ top.node \notin DOMAIN top.node_outputs
              /\ top.pending # << >>
              /\ stack'[Len(stack')].graph_name = Head(top.pending).name
              /\ stack'[Len(stack')].inputs = Head(top.pending).inputs
              /\ stack'[Len(stack)] = [top EXCEPT !.pending = Tail(top.pending)] ]_vars
    \* it ends only when its own work list is empty
    /\ [][ (pc = "run_graph" /\ Len(stack') < Len(stack))
              => (top.pc = "loop" /\ top.node_queue = << >>) ]_vars
    \* while it goes on the outer run_graph stands still: no node of it is run
    /\ [][ NodeRunStep =>
              \A k \in 1..(Len(stack) - 1) :
                  stack[k].pc = "sub_graphs" /\ stack'[k] = stack[k] ]_vars
    \* outputs are recorded only by the innermost run_graph with no request left
    /\ [][ pc = "run_graph" =>
              \A k \in 1..Len(stack) :
                 (k <= Len(stack')
                     /\ DOMAIN stack'[k].node_outputs # DOMAIN stack[k].node_outputs)
                 => (k = Len(stack) /\ Len(stack') = Len(stack)
                        /\ stack[k].pending = << >>) ]_vars
    \* the j-th run of the sub graph's node p after the Driver's run is fed the
    \* input of the Driver's j-th request
    /\ [](\A i \in 1..Len(log) :
            (log[i].e = "run" /\ log[i].graph_name = NoName /\ log[i].node = 6) =>
                LET runs == runs_after(i, "sub", 2)
                IN /\ Len(runs) <= Len(log[i].requests)
                   /\ \A j \in 1..Len(runs) :
                         runs[j].inputs = << log[i].requests[j].inputs[1] >>)

\* The Driver asked for two runs of the sub graph with different inputs, both have
\* run to the end, in that order, and the Driver's outputs are recorded.
C30_Witness ==
    /\ pc = "run_graph"
    /\ Len(stack) = 1
    /\ 6 \in DOMAIN top.node_outputs
    /\ \E i \in 1..Len(log) :
          /\ log[i].e = "run"
          /\ log[i].node = 6
          /\ log[i].requests = << RunSubGraph("sub", << SubGraphInput >>),
                                  RunSubGraph("sub", << OtherInput >>) >>
          /\ Len(runs_after(i, "sub", 2)) = 2
          /\ Len(runs_after(i, "sub", 3)) = 2

\* The log without the update calls that precede RenderGraphRunner::run.
run_log == SelectSeq(log, LAMBDA ev : ev.e # "update")

\* C31: when RenderGraphRunner::run has returned Ok, it has performed, in this
\* order: the node runs of the root graph (started with no inputs, none of them
\* failing), then the finalizer once, then the end of recording on command
\* buffer 0 once, then one submission of the frame's command buffers.
C31_SuccessfulTickOrder ==
    result = "Ok" =>
        /\ run_log = node_runs \o << Event("finalizer", NoName, NoId, << >>, << >>),
                                    Event("end", NoName, NoId, << >>, << >>),
                                    Event("submit", NoName, NoId, << >>, << >> ) >>
        /\ \A i \in 1..Len(node_runs) : node_runs[i].e = "run"
        /\ returned.graph_name = NoName
        /\ returned.inputs = << >>
        /\ returned.node_queue = << >>
        /\ current.command_buffers = << "executable" >>
        /\ current.submitted

\* A tick has succeeded in which the four nodes of the root graph have run.
C31_Witness ==
    /\ result = "Ok"
    /\ pc = "cleanup"
    /\ Len(SelectSeq(node_runs, LAMBDA ev : ev.graph_name = NoName)) = 4

\* The innermost run_graph is at the end of a pass, about to check the outputs of
\* the node it ran, and this step is that check.
OutputsChecked ==
    /\ pc = "run_graph"
    /\ top.pc = "sub_graphs"
    /\ top.pending = << >>
    /\ stack' # stack \/ pc' # pc

\* The declared output slots (0-based) the node's run left unset.
unset_slots(f) == {i \in 0..(Len(f.outputs) - 1) : f.outputs[i + 1] = NoValue}

slot_edge_count(edges) == Len(SelectSeq(edges, LAMBDA e : e.kind = "SlotEdge"))

\* This step is a pass of the loop on a node that has not run, all of whose
\* incoming edges have their producer's outputs recorded.
DependenciesSatisfied ==
    /\ pc = "run_graph"
    /\ top.pc = "loop"
    /\ top.node_queue # << >>
    /\ stack' # stack \/ pc' # pc
    /\ LET id == next_considered(top)
           edges == top.g.nodes[id].edges.input_edges
       IN /\ id \notin DOMAIN top.node_outputs
          /\ \A i \in 1..Len(edges) : edges[i].output_node \in DOMAIN top.node_outputs

\* C33: when all incoming edges of a node are satisfied and the number of values
\* gathered from its slot edges differs from its declared input-slot count,
\* run_graph returns MismatchedInputCount naming the node and does not invoke the
\* node's run.
C33_InputCountMismatchIsAnError ==
    [][ LET node_state == top.g.nodes[next_considered(top)]
        IN (DependenciesSatisfied
              /\ slot_edge_count(node_state.edges.input_edges) # Len(node_state.input_slots))
           => /\ result' = "MismatchedInputCount"
              /\ pc' = "panicked"
              /\ \E beh \in Behaviours(node_state) :
                    run_graph_iteration(top, beh).node_name = node_state.name
              /\ node_runs' = node_runs
              /\ top'.ran = top.ran ]_vars

\* The Sink s, with one of its two input slots connected, was taken from the work
\* list after its producer a had run, and run_graph returned the error.
C33_Witness ==
    /\ result = "MismatchedInputCount"
    /\ pc = "panicked"
    /\ Len(stack) = 1
    /\ 4 \in DOMAIN top.node_outputs
    /\ 7 \notin Range(top.ran)
    /\ slot_edge_count(top.g.nodes[7].edges.input_edges) = 1
    /\ \A i \in 1..Len(top.g.nodes[7].edges.input_edges) :
          top.g.nodes[7].edges.input_edges[i].output_node \in DOMAIN top.node_outputs

\* The elements of the edge lists of node id of g.
input_edge_set(g, id) == Range(g.nodes[id].edges.input_edges)

output_edge_set(g, id) == Range(g.nodes[id].edges.output_edges)

\* C34: after any sequence of public graph operations the edge lists are
\* symmetric: an edge is in the output-edge list of its output node if and only
\* if it is in the input-edge list of its input node, and both endpoints of every
\* stored edge are nodes of the graph.
C34_EdgeListsSymmetric ==
    \A id \in DOMAIN graph.nodes :
        /\ \A e \in output_edge_set(graph, id) :
              /\ e.output_node = id
              /\ has_node(graph, e.input_node)
              /\ e \in input_edge_set(graph, e.input_node)
        /\ \A e \in input_edge_set(graph, id) :
              /\ e.input_node = id
              /\ has_node(graph, e.output_node)
              /\ e \in output_edge_set(graph, e.output_node)

\* C35: run_graph never panics (no failed expect or unwrap on a node lookup, no
\* output index out of range) on a graph built through the public RenderGraph
\* operations.
C35_RunGraphNeverPanics ==
    [][ (pc = "render" \/ pc = "run_graph") => (result' # "Panic") ]_vars

(***************************************************************************)
(* Progress of a tick (SpecRunLive).  The systems of a tick and the loop   *)
(* of run_graph are sequential code on one thread: a step that can be      *)
(* taken is taken.                                                         *)
(***************************************************************************)
SpecRunLive == RunInit /\ [][RunNext]_vars /\ WF_vars(RunNext)

\* C36: run_graph terminates, returning Ok or an error after finitely many
\* passes of its loop, on every graph whose edge set is acyclic, whether or not
\* every declared input slot is connected.
C36_AcyclicTerminates ==
    (pc = "run_graph" /\ Acyclic(graph)) ~> (pc # "run_graph")

\* C37: whenever run_graph has returned Ok for a graph, every node of that graph
\* has an entry in node_outputs: no node was skipped.
C37_OkMeansEveryNodeRan ==
    returned # NoFrame => DOMAIN returned.node_outputs = DOMAIN returned.g.nodes

\* C38: whenever the input_node field of a graph is set, it refers to a node of
\* the graph, and get_input_node returns it.
C38_InputNodePresent ==
    graph.input_node # NoId =>
        /\ has_node(graph, graph.input_node)
        /\ get_input_node(graph) = graph.input_node

\* C39: in every swapchain state, also after a resize that returned an error, the
\* acquire-semaphore ring is as long as the number of swapchain images, that number
\* is at least 1 and the ring index is smaller than the ring length.
C39_RingMatchesImages ==
    pc = "swapchain" =>
        /\ Len(swapchain.acquire_semaphores) = swapchain.images
        /\ swapchain.images >= 1
        /\ swapchain.current_semaphores_index < Len(swapchain.acquire_semaphores)

\* C40: queue_present returns false only when the present was a soft failure
\* (out of date or suboptimal); a present the underlying call reports as fully
\* successful does not return false.
C40_FalseOnlyOnSoftFailure ==
    (swap_call.op = "queue_present" /\ swap_call.res = "Ok" /\ swap_call.value = FALSE)
        => swap_call.reported \in {"out_of_date", "suboptimal"}

====
